---- MODULE Spec2Model ----
(***************************************************************************)
(* Model of the Backend of abhi-j-work/research_agents:                    *)
(*   - hybrid_agent.get_combined_response: the three retrieval tasks that  *)
(*     asyncio.gather runs on one event loop, and the synthesis call;      *)
(*   - knowledge_graph._merge_graphs: the deduplicating merge of the       *)
(*     per-chunk graphs.                                                   *)
(* One action is one uninterrupted run of a coroutine between two          *)
(* suspension points of the asyncio event loop.                            *)
(***************************************************************************)
EXTENDS Integers, Sequences, FiniteSets, TLC

VARIABLES
    documents,       \* VectorStore.documents: the chunk records of the index
    count,           \* VectorStore._count
    requests,        \* the get_combined_response invocations of this run
    pc,              \* per invocation: where the get_combined_response coroutine is
    tv, tg, tw,      \* per invocation: state of task_vector, task_graph, task_web
    citations_list,  \* per invocation: the list the three tasks append to
    raw_docs,        \* per invocation: what vector_db.search returned to task_vector
    response,        \* per invocation: what text_to_cypher_and_run returned to task_graph
    web_tool,        \* per invocation: how search_tool.run ended in search_web_only
    vector_ctx, graph_ctx, web_ctx,   \* per invocation: the values of the three tasks
    synth_calls,     \* per invocation: number of chain.ainvoke calls made
    result,          \* per invocation: what get_combined_response returned or raised
    graphs,          \* _merge_graphs: the list of chunk graphs given
    call,            \* _merge_graphs: which list was passed to it
    merged,          \* _merge_graphs: the KnowledgeGraphResponse returned
    text, chunk_size, overlap,   \* _chunk_text: its three arguments
    chunks,          \* _chunk_text: what it returned or raised
    n_chunks,        \* process_text_in_chunks: number of chunks (and of tasks)
    task,            \* process_text_in_chunks: per chunk, the state of its extraction task
    results,         \* process_text_in_chunks: per chunk, the value or exception of its task
    finished,        \* process_text_in_chunks: the chunks in the order their tasks ended
    outcome,         \* process_text_in_chunks: "none", "running", "returned" or "raised"
    groq_api_key,    \* process_text_in_chunks: whether GROQ_API_KEY is set in the environment
    llm_reply,       \* process_text_in_chunks: per chunk, how its llm.ainvoke call ended
    graph,           \* path_discovery: the graph given
    max_hops, top_k, \* path_discovery: its two parameters
    all_paths,       \* path_discovery: the pooled paths before sorting
    paths,           \* path_discovery: the list returned
    llm_explanation, \* extract_exceptional_insight: what call_llm returned
    insight,         \* extract_exceptional_insight: the dict returned
    nl,              \* text_to_cypher_simple: its argument
    query,           \* text_to_cypher_simple: the string returned
    upload,          \* upload_and_ingest_hybrid: where the request is, or how it ended
    before           \* upload_and_ingest_hybrid: VectorStore.documents when the request came in

orchVars == <<documents, count, requests, pc, tv, tg, tw, citations_list, raw_docs,
              response, web_tool, vector_ctx, graph_ctx, web_ctx, synth_calls, result>>
mergeVars == <<graphs, call, merged>>
chunkVars == <<text, chunk_size, overlap, chunks>>
extractVars == <<n_chunks, task, results, finished, outcome, groq_api_key, llm_reply>>
pathVars == <<graph, max_hops, top_k, all_paths, paths, llm_explanation, insight>>
cypherVars == <<nl, query>>
uploadVars == <<upload, before>>
vars == <<orchVars, mergeVars, chunkVars, extractVars, pathVars, cypherVars, uploadVars>>

\* what the actions of one part of the program leave alone
notOrch == <<mergeVars, chunkVars, extractVars, pathVars, cypherVars, uploadVars>>
notMerge == <<orchVars, chunkVars, extractVars, pathVars, cypherVars, uploadVars>>
notChunk == <<orchVars, mergeVars, extractVars, pathVars, cypherVars, uploadVars>>
notExtract == <<orchVars, chunkVars, pathVars, cypherVars, uploadVars>>
notPath == <<orchVars, mergeVars, chunkVars, extractVars, cypherVars, uploadVars>>
notCypher == <<orchVars, mergeVars, chunkVars, extractVars, pathVars, uploadVars>>

None == [kind |-> "none"]

\* ------------------------------------------------------------------------
\* Bounds of the model
\* ------------------------------------------------------------------------
MaxDocs == 4          \* chunk records the vector index holds at most
MaxUploadChunks == 2  \* chunks one add_document call adds at most
Filenames == {"a.pdf", "b.pdf"}

\* ------------------------------------------------------------------------
\* vector_store.py
\* ------------------------------------------------------------------------
K == 3    \* hybrid_agent.py: vector_db.search(query, k=3)

\* VectorStore.add_document: one record per chunk, chunk_id = position in the upload
NewChunks(filename, n) ==
    [i \in 1..n |-> [text |-> <<filename, i - 1>>,
                     metadata |-> [filename |-> filename],
                     chunk_id |-> i - 1]]

add_document(filename, n) ==
    /\ n >= 1
    /\ Len(documents) + n <= MaxDocs
    /\ documents' = documents \o NewChunks(filename, n)
    /\ count' = count + n

\* What faiss index.search(vec, k) can return for an index of n vectors: k labels,
\* the min(k, n) nearest (distinct positions, any order: the distances depend on
\* the embedding) and then -1 for the missing neighbours.
Min(a, b) == IF a < b THEN a ELSE b

FaissIndices(n, k) ==
    {s \in [1..k -> (0..(n - 1)) \cup {-1}] :
        /\ \A p \in 1..k : (s[p] = -1) <=> (p > Min(k, n))
        /\ \A p, q \in 1..k : (p # q /\ s[p] # -1) => s[p] # s[q]}

\* VectorStore.search, lines 45-54: keep the labels that index self.documents
RECURSIVE SearchResults(_, _)
SearchResults(docs, indices) ==
    IF indices = <<>> THEN <<>>
    ELSE LET idx == Head(indices)
             rest == SearchResults(docs, Tail(indices))
         IN  IF 0 <= idx /\ idx < Len(docs) THEN <<docs[idx + 1]>> \o rest ELSE rest

\* VectorStore.search: [] for an empty store, else the filtered neighbours
search(docs, cnt, indices) ==
    IF cnt = 0 THEN <<>> ELSE SearchResults(docs, indices)

\* ------------------------------------------------------------------------
\* hybrid_agent.py: task_vector
\* ------------------------------------------------------------------------
Citation(id, type, content, source_file) ==
    [id |-> id, type |-> type, content |-> content, source_file |-> source_file]

NoDocsMarker == [kind |-> "marker", text |-> "No relevant internal documents found."]
NoGraphMarker == [kind |-> "marker", text |-> "No graph data found."]
NoWebMarker == [kind |-> "marker", text |-> "No web results found."]

\* ref_id = f"Doc-{i+1}" for the enumerate index i (0-based); n is the 1-based position
DocRefId(n) == <<"Doc", n>>

\* task_vector numbering the hits from the enumerate index itself: f"Doc-{i}"
VectorCitations_ZeroBased(docs) ==
    [n \in 1..Len(docs) |->
        Citation(DocRefId(n - 1), "text", docs[n].text, docs[n].metadata.filename)]

\* lines 31-40: the citations task_vector appends, in enumerate order
VectorCitations(docs) ==
    [n \in 1..Len(docs) |->
        Citation(DocRefId(n), "text", docs[n].text, docs[n].metadata.filename)]

\* lines 28-41: the value task_vector returns
VectorContext(docs) ==
    IF docs = <<>> THEN NoDocsMarker
    ELSE [kind |-> "context",
          blocks |-> [n \in 1..Len(docs) |->
                        [ref_id |-> DocRefId(n), file |-> docs[n].metadata.filename,
                         snippet |-> docs[n].text]]]

\* ------------------------------------------------------------------------
\* database.py: run_query_if_neo4j.  It never raises: a missing driver and a
\* failed query both come back as the dict {"error": ...}; a query that ran
\* comes back as the list of rows.
\* ------------------------------------------------------------------------
ExecOutcomes == {"no_driver", "query_error", "empty", "rows", "rows_not_json"}

run_query_if_neo4j(exec) ==
    CASE exec = "no_driver"     -> [kind |-> "dict", error |-> "Neo4j driver not available."]
      [] exec = "query_error"   -> [kind |-> "dict", error |-> "query failed"]
      [] exec = "empty"         -> [kind |-> "list", rows |-> <<>>]
      [] exec = "rows"          -> [kind |-> "list", rows |-> <<"record">>]
      [] exec = "rows_not_json" -> [kind |-> "list", rows |-> <<"DateTime">>]

\* ------------------------------------------------------------------------
\* chat_agent.py: text_to_cypher_and_run(query, run_query_fn=run_query_if_neo4j,
\* use_llm=True).  translate is how step 1 ended:
\*   "no_key"        GROQ_API_KEY unset, the LLM branch is skipped
\*   "setup_failed"  the LLM branch raised before the call was awaited
\*   "llm_cypher"    the awaited call returned a query
\*   "llm_empty"     the awaited call returned text that cleans to ""
\*   "llm_raised"    the awaited call raised
\* The cypher string is modelled by the generator that produced it.
\* ------------------------------------------------------------------------
LlmOutcomes == {"llm_cypher", "llm_empty", "llm_raised"}

\* lines 105-150: cypher and note after step 1 ("" is Python's empty string / None)
LlmBranch(translate) ==
    CASE translate = "no_key"       -> [cypher |-> "", note |-> ""]
      [] translate = "llm_cypher"   -> [cypher |-> "llm", note |-> "generated_via_llm"]
      [] translate = "llm_empty"    -> [cypher |-> "", note |-> "generated_via_llm"]
      [] translate \in {"llm_raised", "setup_failed"}
                                    -> [cypher |-> "rule_based", note |-> "llm_generation_failed"]

\* lines 152-158: the rule-based fallback when no cypher was produced
RuleFallback(st) ==
    IF st.cypher = ""
    THEN [cypher |-> "rule_based",
          note |-> IF st.note = "" THEN "generated_via_rule_based" ELSE st.note]
    ELSE st

\* lines 160-174: run_query_fn is given, so its value is returned as results
text_to_cypher_and_run(translate, exec) ==
    LET st == RuleFallback(LlmBranch(translate))
    IN  [cypher |-> st.cypher, results |-> run_query_if_neo4j(exec), note |-> st.note]

\* ------------------------------------------------------------------------
\* hybrid_agent.py: task_graph
\* ------------------------------------------------------------------------
\* Python truth value of response["results"]: a list is true when non-empty, the
\* error dict {"error": ...} has one key and is true
Truthy(data) == IF data.kind = "list" THEN data.rows # <<>> ELSE TRUE

\* json.dumps(data, indent=2): raises TypeError on a value json cannot encode
\* (a neo4j temporal or spatial value in a row)
JsonSerializable(data) == data.kind = "dict" \/ \A n \in 1..Len(data.rows) : data.rows[n] # "DateTime"

GraphRefId == <<"Graph", 1>>

\* lines 47-60: what task_graph appends and returns for a response
GraphCitations(resp) ==
    IF Truthy(resp.results) /\ JsonSerializable(resp.results)
    THEN <<Citation(GraphRefId, "graph", resp.cypher, "None")>>
    ELSE <<>>

GraphContext(resp) ==
    IF ~Truthy(resp.results) THEN NoGraphMarker
    ELSE IF ~JsonSerializable(resp.results)
         THEN [kind |-> "error", text |-> "Graph Error: TypeError"]
         ELSE [kind |-> "context", ref_id |-> GraphRefId, cypher |-> resp.cypher,
               results |-> resp.results]

\* ------------------------------------------------------------------------
\* chat_agent.py: search_web_only; hybrid_agent.py: task_web
\* ------------------------------------------------------------------------
ToolOutcomes == {"raised", "blank", "text"}

\* search_web_only with the exception's text returned in place of ""
search_web_only_ErrorText(tool) ==
    CASE tool = "raised" -> "DuckDuckGo Search failed"
      [] tool = "blank"  -> ""
      [] tool = "text"   -> "web results"

\* lines 251-262: the tool's exception is caught and gives "", as does blank text
search_web_only(tool) ==
    LET retrieved_context == CASE tool = "raised" -> ""
                               [] tool = "blank"  -> " "
                               [] tool = "text"   -> "web results"
    IN  IF retrieved_context \in {"", " "} THEN "" ELSE retrieved_context

WebRefId == <<"Web", 1>>

\* lines 64-71
WebCitations(web_text) ==
    IF web_text = "" THEN <<>> ELSE <<Citation(WebRefId, "web", web_text, "DuckDuckGo")>>

WebContext(web_text) ==
    IF web_text = "" THEN NoWebMarker
    ELSE [kind |-> "context", ref_id |-> WebRefId, text |-> web_text]

\* ------------------------------------------------------------------------
\* hybrid_agent.py: get_combined_response, one asyncio task step per action
\* ------------------------------------------------------------------------
Invocations == {1, 2}

\* line 23, "citations_list = []": every call makes a list of its own, and the
\* three task closures of the call append to that list
ListOf_ModuleLevel(i) == 1
ListOf(i) == i

\* main.py upload_and_ingest_hybrid, line 197: the only caller of add_document
AddDocument ==
    /\ \E f \in Filenames, n \in 1..MaxUploadChunks : add_document(f, n)
    /\ UNCHANGED <<requests, pc, tv, tg, tw, citations_list, raw_docs, response, web_tool,
                   vector_ctx, graph_ctx, web_ctx, synth_calls, result>>
    /\ UNCHANGED notOrch

\* lines 23-79: citations_list = [] and asyncio.gather wraps the three coroutines
\* in tasks, which the loop will start in the order given; the caller suspends.
Call(i) ==
    /\ i \in requests
    /\ pc[i] = "idle"
    /\ pc' = [pc EXCEPT ![i] = "gather"]
    /\ tv' = [tv EXCEPT ![i] = "ready"]
    /\ tg' = [tg EXCEPT ![i] = "ready"]
    /\ tw' = [tw EXCEPT ![i] = "ready"]
    /\ citations_list' = [citations_list EXCEPT ![ListOf(i)] = <<>>]
    /\ UNCHANGED <<documents, count, requests, raw_docs, response, web_tool,
                   vector_ctx, graph_ctx, web_ctx, synth_calls, result>>
    /\ UNCHANGED notOrch

\* lines 26-41: task_vector has no await, it runs to its end in one step.
\* vector_db.search raised (the encoder or the index failed): nothing in
\* task_vector catches it and the task ends with the exception.
TaskVectorRaises(i) ==
    /\ tv[i] = "ready"
    /\ tv' = [tv EXCEPT ![i] = "raised"]
    /\ UNCHANGED <<documents, count, requests, pc, tg, tw, citations_list, raw_docs,
                   response, web_tool, vector_ctx, graph_ctx, web_ctx, synth_calls, result>>
    /\ UNCHANGED notOrch

TaskVector(i) ==
    /\ tv[i] = "ready"
    /\ \E indices \in FaissIndices(Len(documents), K) :
          LET docs == search(documents, count, indices)
          IN  /\ raw_docs' = [raw_docs EXCEPT ![i] = docs]
              /\ citations_list' =
                    [citations_list EXCEPT ![ListOf(i)] = @ \o VectorCitations(docs)]
              /\ vector_ctx' = [vector_ctx EXCEPT ![i] = VectorContext(docs)]
    /\ tv' = [tv EXCEPT ![i] = "done"]
    /\ UNCHANGED <<documents, count, requests, pc, tg, tw, response, web_tool,
                   graph_ctx, web_ctx, synth_calls, result>>
    /\ UNCHANGED notOrch

\* task_graph ends: lines 47-60 for the response of text_to_cypher_and_run
FinishGraph(i, resp) ==
    /\ response' = [response EXCEPT ![i] = resp]
    /\ citations_list' = [citations_list EXCEPT ![ListOf(i)] = @ \o GraphCitations(resp)]
    /\ graph_ctx' = [graph_ctx EXCEPT ![i] = GraphContext(resp)]
    /\ tg' = [tg EXCEPT ![i] = "done"]

\* The loop starts task_graph after task_vector's step (tasks start in gather's
\* order).  Without GROQ_API_KEY, or when the LLM branch raises before its await,
\* text_to_cypher_and_run has no suspension point: the query is translated by
\* rule, run (run_query_fn is synchronous) and task_graph ends in this same step.
TaskGraphSync(i) ==
    /\ tg[i] = "ready"
    /\ tv[i] # "ready"
    /\ \E translate \in {"no_key", "setup_failed"}, exec \in ExecOutcomes :
          FinishGraph(i, text_to_cypher_and_run(translate, exec))
    /\ UNCHANGED <<documents, count, requests, pc, tv, tw, raw_docs, web_tool,
                   vector_ctx, web_ctx, synth_calls, result>>
    /\ UNCHANGED notOrch

\* chat_agent.py line 137: task_graph suspends in await rag_chain.ainvoke
TaskGraphAwaitLlm(i) ==
    /\ tg[i] = "ready"
    /\ tv[i] # "ready"
    /\ tg' = [tg EXCEPT ![i] = "await_llm"]
    /\ UNCHANGED <<documents, count, requests, pc, tv, tw, citations_list, raw_docs,
                   response, web_tool, vector_ctx, graph_ctx, web_ctx, synth_calls, result>>
    /\ UNCHANGED notOrch

\* the LLM call ended; the rest of text_to_cypher_and_run and of task_graph runs
TaskGraphResume(i) ==
    /\ tg[i] = "await_llm"
    /\ \E translate \in LlmOutcomes, exec \in ExecOutcomes :
          FinishGraph(i, text_to_cypher_and_run(translate, exec))
    /\ UNCHANGED <<documents, count, requests, pc, tv, tw, raw_docs, web_tool,
                   vector_ctx, web_ctx, synth_calls, result>>
    /\ UNCHANGED notOrch

\* task_web starts after task_graph's first step and suspends in
\* await loop.run_in_executor (chat_agent.py line 254)
TaskWebAwaitTool(i) ==
    /\ tw[i] = "ready"
    /\ tg[i] # "ready"
    /\ tw' = [tw EXCEPT ![i] = "await_tool"]
    /\ UNCHANGED <<documents, count, requests, pc, tv, tg, citations_list, raw_docs,
                   response, web_tool, vector_ctx, graph_ctx, web_ctx, synth_calls, result>>
    /\ UNCHANGED notOrch

\* search_tool.run ended in the executor thread; search_web_only and task_web end
TaskWebResume(i) ==
    /\ tw[i] = "await_tool"
    /\ \E tool \in ToolOutcomes :
          LET web_text == search_web_only(tool)
          IN  /\ web_tool' = [web_tool EXCEPT ![i] = tool]
              /\ citations_list' = [citations_list EXCEPT ![ListOf(i)] = @ \o WebCitations(web_text)]
              /\ web_ctx' = [web_ctx EXCEPT ![i] = WebContext(web_text)]
    /\ tw' = [tw EXCEPT ![i] = "done"]
    /\ UNCHANGED <<documents, count, requests, pc, tv, tg, raw_docs, response,
                   vector_ctx, graph_ctx, synth_calls, result>>
    /\ UNCHANGED notOrch

\* asyncio.gather without return_exceptions: the first exception of a child is
\* set on the gather future; the awaiting coroutine is resumed by a callback
\* queued behind the first steps of the tasks already scheduled.  The other
\* children are not cancelled and keep running.
GatherFailed(st_v, st_g, st_w) ==
    st_v = "raised" /\ st_g # "ready" /\ st_w # "ready"

\* the gather future gets its result when every child has ended without exception
GatherComplete(st_v, st_g, st_w) ==
    st_v = "done" /\ st_g = "done" /\ st_w = "done"

\* line 75 raises: get_combined_response ends with the child's exception
GatherRaises(i) ==
    /\ pc[i] = "gather"
    /\ GatherFailed(tv[i], tg[i], tw[i])
    /\ pc' = [pc EXCEPT ![i] = "raised"]
    /\ result' = [result EXCEPT ![i] = [kind |-> "raised", error |-> "vector search failed"]]
    /\ UNCHANGED <<documents, count, requests, tv, tg, tw, citations_list, raw_docs, response,
                   web_tool, vector_ctx, graph_ctx, web_ctx, synth_calls>>
    /\ UNCHANGED notOrch

\* lines 75-121: the join, then the prompt is built and chain.ainvoke awaited
Synthesize(i) ==
    /\ pc[i] = "gather"
    /\ GatherComplete(tv[i], tg[i], tw[i])
    /\ pc' = [pc EXCEPT ![i] = "synth"]
    /\ synth_calls' = [synth_calls EXCEPT ![i] = @ + 1]
    /\ UNCHANGED <<documents, count, requests, tv, tg, tw, citations_list, raw_docs, response,
                   web_tool, vector_ctx, graph_ctx, web_ctx, result>>
    /\ UNCHANGED notOrch

\* lines 123-126: the model answered
Return(i) ==
    /\ pc[i] = "synth"
    /\ pc' = [pc EXCEPT ![i] = "returned"]
    /\ result' = [result EXCEPT ![i] =
                    [kind |-> "returned",
                     answer |-> [vector_ctx |-> vector_ctx[i], graph_ctx |-> graph_ctx[i],
                                 web_ctx |-> web_ctx[i]],
                     citations |-> citations_list[ListOf(i)]]]
    /\ UNCHANGED <<documents, count, requests, tv, tg, tw, citations_list, raw_docs, response,
                   web_tool, vector_ctx, graph_ctx, web_ctx, synth_calls>>
    /\ UNCHANGED notOrch

\* line 116 raises: the synthesis model call failed
SynthesisRaises(i) ==
    /\ pc[i] = "synth"
    /\ pc' = [pc EXCEPT ![i] = "raised"]
    /\ result' = [result EXCEPT ![i] = [kind |-> "raised", error |-> "synthesis failed"]]
    /\ UNCHANGED <<documents, count, requests, tv, tg, tw, citations_list, raw_docs, response,
                   web_tool, vector_ctx, graph_ctx, web_ctx, synth_calls>>
    /\ UNCHANGED notOrch

\* no get_combined_response call has started
NoInvocation ==
    /\ pc = [i \in Invocations |-> "idle"]
    /\ tv = [i \in Invocations |-> "none"]
    /\ tg = [i \in Invocations |-> "none"]
    /\ tw = [i \in Invocations |-> "none"]
    /\ citations_list = [i \in Invocations |-> <<>>]
    /\ raw_docs = [i \in Invocations |-> <<>>]
    /\ response = [i \in Invocations |-> None]
    /\ web_tool = [i \in Invocations |-> "none"]
    /\ vector_ctx = [i \in Invocations |-> None]
    /\ graph_ctx = [i \in Invocations |-> None]
    /\ web_ctx = [i \in Invocations |-> None]
    /\ synth_calls = [i \in Invocations |-> 0]
    /\ result = [i \in Invocations |-> None]

\* The state after import: an empty VectorStore and no request in flight
OrchInit ==
    /\ documents = <<>>
    /\ count = 0
    /\ NoInvocation

MergeIdle ==
    /\ graphs = <<>>
    /\ call = "none"
    /\ merged = None

\* no _chunk_text call
ChunkIdle ==
    /\ text = <<>>
    /\ chunk_size = 1
    /\ overlap = 0
    /\ chunks = None

\* no process_text_in_chunks call
ExtractIdle ==
    /\ n_chunks = 0
    /\ task = <<>>
    /\ results = <<>>
    /\ finished = <<>>
    /\ outcome = "none"
    /\ groq_api_key = TRUE
    /\ llm_reply = <<>>

\* no path_discovery call
PathIdle ==
    /\ graph = None
    /\ max_hops = 0
    /\ top_k = 0
    /\ all_paths = <<>>
    /\ paths = None
    /\ llm_explanation = None
    /\ insight = None

\* no text_to_cypher_simple call
CypherIdle ==
    /\ nl = ""
    /\ query = None

\* no upload_and_ingest_hybrid request
UploadIdle ==
    /\ upload = "none"
    /\ before = <<>>

Init ==
    /\ OrchInit
    /\ requests = {1}
    /\ MergeIdle
    /\ ChunkIdle
    /\ ExtractIdle
    /\ PathIdle
    /\ CypherIdle
    /\ UploadIdle

Next ==
    \/ AddDocument
    \/ \E i \in Invocations : Call(i)
    \/ \E i \in Invocations : TaskVectorRaises(i)
    \/ \E i \in Invocations : TaskVector(i)
    \/ \E i \in Invocations : TaskGraphSync(i)
    \/ \E i \in Invocations : TaskGraphAwaitLlm(i)
    \/ \E i \in Invocations : TaskGraphResume(i)
    \/ \E i \in Invocations : TaskWebAwaitTool(i)
    \/ \E i \in Invocations : TaskWebResume(i)
    \/ \E i \in Invocations : GatherRaises(i)
    \/ \E i \in Invocations : Synthesize(i)
    \/ \E i \in Invocations : Return(i)
    \/ \E i \in Invocations : SynthesisRaises(i)

Spec == Init /\ [][Next]_vars

\* two chat requests in flight at once over a store that holds one uploaded
\* document: FastAPI runs each request's get_combined_response as a coroutine
\* of its own on the one event loop
ConcurrentInit ==
    /\ documents = NewChunks("a.pdf", 2)
    /\ count = 2
    /\ NoInvocation
    /\ requests = Invocations
    /\ MergeIdle
    /\ ChunkIdle
    /\ ExtractIdle
    /\ PathIdle
    /\ CypherIdle
    /\ UploadIdle

ConcurrentNext ==
    \/ \E i \in Invocations : Call(i)
    \/ \E i \in Invocations : TaskVectorRaises(i)
    \/ \E i \in Invocations : TaskVector(i)
    \/ \E i \in Invocations : TaskGraphSync(i)
    \/ \E i \in Invocations : TaskGraphAwaitLlm(i)
    \/ \E i \in Invocations : TaskGraphResume(i)
    \/ \E i \in Invocations : TaskWebAwaitTool(i)
    \/ \E i \in Invocations : TaskWebResume(i)
    \/ \E i \in Invocations : GatherRaises(i)
    \/ \E i \in Invocations : Synthesize(i)
    \/ \E i \in Invocations : Return(i)
    \/ \E i \in Invocations : SynthesisRaises(i)

ConcurrentSpec == ConcurrentInit /\ [][ConcurrentNext]_vars

\* ------------------------------------------------------------------------
\* Claims about get_combined_response
\* ------------------------------------------------------------------------
CitationIds(cs) == [n \in 1..Len(cs) |-> cs[n].id]

HasCitation(cs, kind) == \E n \in 1..Len(cs) : cs[n].id[1] = kind

SourceRank(id) == CASE id[1] = "Doc" -> 1 [] id[1] = "Graph" -> 2 [] id[1] = "Web" -> 3

\* Doc-* first in hit order, then Graph-1, then Web-1
InDeclarationOrder(cs) ==
    \A m, n \in 1..Len(cs) :
        m < n => \/ SourceRank(cs[m].id) < SourceRank(cs[n].id)
                 \/ /\ cs[m].id[1] = "Doc"
                    /\ cs[n].id[1] = "Doc"
                    /\ cs[m].id[2] < cs[n].id[2]

AllTasksEnded(i) == tv[i] \in {"done", "raised"} /\ tg[i] = "done" /\ tw[i] = "done"

\* C1: in every interleaving of the three tasks' completions the returned
\* citations list holds the Doc-* citations first, in hit order, then Graph-1,
\* then Web-1; with 2 vector hits, a graph hit and a web hit it is exactly
\* [Doc-1, Doc-2, Graph-1, Web-1].
C1_CitationsInDeclarationOrder ==
    \A i \in requests :
        pc[i] = "returned" =>
            /\ InDeclarationOrder(result[i].citations)
            /\ (/\ Len(raw_docs[i]) = 2
                /\ HasCitation(result[i].citations, "Graph")
                /\ HasCitation(result[i].citations, "Web"))
               => CitationIds(result[i].citations)
                    = <<DocRefId(1), DocRefId(2), GraphRefId, WebRefId>>

\* C2: no retrieval task ends with an exception (a failure inside it becomes a
\* placeholder context), and the request raises only when the synthesis call fails.
C2_SourceFailureNeverFailsRequest ==
    \A i \in requests :
        /\ tv[i] # "raised"
        /\ pc[i] = "raised" => result[i].error = "synthesis failed"

\* C3: when the web search tool raised, task_web ends with the empty-result
\* marker and appends no Web-* citation; the request is not failed by it (the
\* join goes on to the synthesis once the other two tasks have ended, and a
\* raise comes from the vector search or the synthesis), and what is returned
\* carries exactly the vector and graph citations and the marker as web context.
C3_WebFailureIsolated ==
    \A i \in requests :
        web_tool[i] = "raised" =>
            /\ tw[i] = "done"
            /\ web_ctx[i] = NoWebMarker
            /\ ~HasCitation(citations_list[i], "Web")
            /\ (pc[i] = "gather" /\ tv[i] = "done" /\ tg[i] = "done") => ENABLED Synthesize(i)
            /\ pc[i] = "raised" =>
                  result[i].error \in {"vector search failed", "synthesis failed"}
            /\ pc[i] = "returned" =>
                  /\ result[i].citations
                        = VectorCitations(raw_docs[i]) \o GraphCitations(response[i])
                  /\ result[i].answer.web_ctx = NoWebMarker

C3_Witness ==
    \E i \in requests :
        /\ pc[i] = "returned"
        /\ web_tool[i] = "raised"
        /\ HasCitation(result[i].citations, "Doc")
        /\ HasCitation(result[i].citations, "Graph")

\* C4: get_combined_response has neither returned nor raised while one of the
\* three tasks is still running, and the synthesis model is invoked at most
\* once, exactly once before a return, and only after all three tasks ended.
C4_JoinWaitsForAllTasks ==
    \A i \in requests :
        /\ pc[i] \in {"returned", "raised"} => AllTasksEnded(i)
        /\ synth_calls[i] <= 1
        /\ synth_calls[i] = 1 => AllTasksEnded(i)
        /\ pc[i] = "returned" => synth_calls[i] = 1

\* C5: task_graph appends Graph-1 exactly when the query execution returned at
\* least one row; when the execution failed no Graph-1 is appended and the
\* graph context block is the error message.
C5_GraphCitationIffRows ==
    \A i \in requests :
        tg[i] = "done" =>
            LET res == response[i].results
            IN  /\ HasCitation(citations_list[i], "Graph")
                      <=> (res.kind = "list" /\ Len(res.rows) >= 1)
                /\ res.kind = "dict" =>
                      /\ ~HasCitation(citations_list[i], "Graph")
                      /\ graph_ctx[i].kind = "error"

\* C6: task_vector gives the n-th hit of the search the citation Doc-n with the
\* hit's text and source filename, in hit order, at most K of them; with zero
\* hits it appends no Doc-* citation and its context is the no-documents marker.
C6_DocCitationsInHitOrder ==
    \A i \in requests :
        tv[i] = "done" =>
            LET hits == raw_docs[i]
                docs == SelectSeq(citations_list[i], LAMBDA c : c.id[1] = "Doc")
            IN  /\ Len(docs) = Len(hits)
                /\ Len(hits) <= K
                /\ \A n \in 1..Len(hits) :
                      /\ docs[n].id = <<"Doc", n>>
                      /\ docs[n].type = "text"
                      /\ docs[n].content = hits[n].text
                      /\ docs[n].source_file = hits[n].metadata.filename
                      /\ \E d \in 1..Len(documents) : documents[d] = hits[n]
                /\ hits = <<>> <=> vector_ctx[i] = NoDocsMarker
                /\ hits # <<>> =>
                      /\ vector_ctx[i].kind = "context"
                      /\ \A n \in 1..Len(hits) : vector_ctx[i].blocks[n].ref_id = docs[n].id

C6_Witness ==
    \E i \in requests :
        /\ tv[i] = "done"
        /\ Len(raw_docs[i]) = K
        /\ raw_docs[i][1].metadata.filename # raw_docs[i][2].metadata.filename
        /\ raw_docs[i][1] # documents[1]
        /\ HasCitation(citations_list[i], "Doc")

\* C28: in text_to_cypher_and_run with the model-based translator enabled, a
\* failed model call or an empty model output is recovered: the cypher
\* returned is the rule-based one, the query is still run, the call does not
\* raise, and the note names the generator that produced the returned cypher
\* (a note saying that the model's generation failed is taken to name the
\* fallback).
C28_FallbackRecoversAndIsNamed ==
    \A i \in requests :
        (tg[i] = "done" /\ response[i].cypher = "rule_based") =>
            /\ response[i].results.kind \in {"list", "dict"}
            /\ response[i].note \in {"generated_via_rule_based", "llm_generation_failed"}

Elements(seq) == {seq[n] : n \in 1..Len(seq)}

\* the citations the tasks of invocation i that have ended created
OwnCitations(i) ==
    (IF tv[i] = "done" THEN Elements(VectorCitations(raw_docs[i])) ELSE {})
        \cup (IF tg[i] = "done" THEN Elements(GraphCitations(response[i])) ELSE {})
        \cup (IF tw[i] = "done"
              THEN Elements(WebCitations(search_web_only(web_tool[i]))) ELSE {})

IsPrefix(s, t) == Len(s) <= Len(t) /\ SubSeq(t, 1, Len(s)) = s

OwnCitationsOnly ==
    \A i \in requests :
        /\ \A n \in 1..Len(citations_list[i]) : citations_list[i][n] \in OwnCitations(i)
        /\ \A n, m \in 1..Len(citations_list[i]) :
              citations_list[i][n].id = citations_list[i][m].id => n = m
        /\ pc[i] = "returned" => result[i].citations = citations_list[i]

AppendOnly ==
    \A i \in requests : IsPrefix(citations_list[i], citations_list'[i])

\* C29: citations are per-invocation and append-only: with two
\* get_combined_response invocations running concurrently in any
\* interleaving, each list, and each returned list, holds only citations
\* created by that invocation's own three tasks, each citation id occurs at
\* most once in a list, and no citation is removed or reordered once appended.
C29_CitationsPerInvocationAppendOnly ==
    [](OwnCitationsOnly) /\ [][AppendOnly]_vars

\* both invocations returned, their tasks interleaved, with different
\* citations: the first one's list has Doc and Web citations and no Graph
\* citation, the second one's has a Graph citation and no Web citation
C29_Witness ==
    /\ pc[1] = "returned" /\ pc[2] = "returned"
    /\ raw_docs[1] # raw_docs[2]
    /\ HasCitation(result[1].citations, "Doc")
    /\ HasCitation(result[1].citations, "Web")
    /\ ~HasCitation(result[1].citations, "Graph")
    /\ HasCitation(result[2].citations, "Graph")
    /\ ~HasCitation(result[2].citations, "Web")

\* ------------------------------------------------------------------------
\* models.py: Node {id, type}, Relationship {source, target, type},
\* KnowledgeGraphResponse {nodes, relationships}; the chunk graphs given to
\* _merge_graphs are drawn from these
\* ------------------------------------------------------------------------
MaxSize == 5    \* chunk graphs plus node and relationship entries of one input list

NodeIds == {"a", "b"}
NodeTypes == {"Material", "Process"}
Nodes == [id : NodeIds, type : NodeTypes]
Relationships ==
    {[source |-> "a", target |-> "b", type |-> "USED_IN"],
     [source |-> "a", target |-> "b", type |-> "IMPACTS"],
     [source |-> "b", target |-> "a", type |-> "USED_IN"]}

KnowledgeGraphResponse(nodes, relationships) ==
    [nodes |-> nodes, relationships |-> relationships]

\* the chunk graphs with m entries in all
ChunkGraphsOfSize(m) ==
    UNION {{KnowledgeGraphResponse(ns, rs) :
                ns \in [1..j -> Nodes], rs \in [1..(m - j) -> Relationships]} :
           j \in 0..m}

\* the lists of chunk graphs whose graphs and entries number s in all
RECURSIVE GraphListsOfSize(_)
GraphListsOfSize(s) ==
    IF s = 0 THEN {<<>>}
    ELSE UNION {{<<g>> \o l : g \in ChunkGraphsOfSize(m), l \in GraphListsOfSize(s - 1 - m)} :
                m \in 0..(s - 1)}

GraphLists == UNION {GraphListsOfSize(s) : s \in 0..MaxSize}

\* ------------------------------------------------------------------------
\* knowledge_graph.py: _merge_graphs.  The loop state is merged_nodes (a dict,
\* which keeps insertion order: modelled by the sequence of its values),
\* edge_set and merged_rels.
\* ------------------------------------------------------------------------
\* the node loop without the membership test: every declaration is kept
MergeNode_Unchecked(st, node) == [st EXCEPT !.merged_nodes = Append(@, node)]

\* the node loop assigning merged_nodes[node.id] = node unconditionally: the
\* key keeps its place in the dict and the last declaration's value
MergeNode_LastWins(st, node) ==
    IF \E k \in 1..Len(st.merged_nodes) : st.merged_nodes[k].id = node.id
    THEN [st EXCEPT !.merged_nodes =
            [k \in 1..Len(@) |-> IF @[k].id = node.id THEN node ELSE @[k]]]
    ELSE [st EXCEPT !.merged_nodes = Append(@, node)]

\* lines 104-105: if node.id not in merged_nodes: merged_nodes[node.id] = node
MergeNode(st, node) ==
    IF \E k \in 1..Len(st.merged_nodes) : st.merged_nodes[k].id = node.id
    THEN st
    ELSE [st EXCEPT !.merged_nodes = Append(@, node)]

\* the relationship loop without the edge_set test
MergeRel_Unchecked(st, rel) == [st EXCEPT !.merged_rels = Append(@, rel)]

\* the relationship loop with edge_tuple = (rel.source, rel.target)
MergeRel_EndpointKey(st, rel) ==
    LET edge_tuple == <<rel.source, rel.target>>
    IN  IF edge_tuple \in st.edge_set
        THEN st
        ELSE [st EXCEPT !.edge_set = @ \cup {edge_tuple},
                        !.merged_rels = Append(@, rel)]

\* lines 107-110: the triple is added to edge_set and the rel appended, once
MergeRel(st, rel) ==
    LET edge_tuple == <<rel.source, rel.target, rel.type>>
    IN  IF edge_tuple \in st.edge_set
        THEN st
        ELSE [st EXCEPT !.edge_set = @ \cup {edge_tuple},
                        !.merged_rels = Append(@, rel)]

\* line 103: for node in graph.nodes
RECURSIVE MergeNodeLoop(_, _)
MergeNodeLoop(st, nodes) ==
    IF nodes = <<>> THEN st ELSE MergeNodeLoop(MergeNode(st, Head(nodes)), Tail(nodes))

\* line 106: for rel in graph.relationships
RECURSIVE MergeRelLoop(_, _)
MergeRelLoop(st, rels) ==
    IF rels = <<>> THEN st ELSE MergeRelLoop(MergeRel(st, Head(rels)), Tail(rels))

\* line 102: for graph in graphs
RECURSIVE MergeGraphLoop(_, _)
MergeGraphLoop(st, gs) ==
    IF gs = <<>> THEN st
    ELSE MergeGraphLoop(
            MergeRelLoop(MergeNodeLoop(st, Head(gs).nodes), Head(gs).relationships),
            Tail(gs))

_merge_graphs(gs) ==
    LET st == MergeGraphLoop(
                [merged_nodes |-> <<>>, edge_set |-> {}, merged_rels |-> <<>>], gs)
    IN  KnowledgeGraphResponse(st.merged_nodes, st.merged_rels)

\* _merge_graphs(graphs)
MergeGiven ==
    /\ call = "none"
    /\ call' = "given"
    /\ merged' = _merge_graphs(graphs)
    /\ UNCHANGED graphs
    /\ UNCHANGED notMerge

\* _merge_graphs(graphs + graphs): the same list followed by itself
MergeTwice ==
    /\ call = "none"
    /\ call' = "twice"
    /\ merged' = _merge_graphs(graphs \o graphs)
    /\ UNCHANGED graphs
    /\ UNCHANGED notMerge

\* _merge_graphs([merged]): the merged graph merged once more
MergeMerged ==
    /\ call = "given"
    /\ call' = "merged"
    /\ merged' = _merge_graphs(<<merged>>)
    /\ UNCHANGED graphs
    /\ UNCHANGED notMerge

\* _merge_graphs([B, A]) for graphs = [A, B]
MergeSwapped ==
    /\ call = "none"
    /\ Len(graphs) = 2
    /\ call' = "swapped"
    /\ merged' = _merge_graphs(<<graphs[2], graphs[1]>>)
    /\ UNCHANGED graphs
    /\ UNCHANGED notMerge

MergeInit ==
    /\ OrchInit
    /\ requests = {}
    /\ graphs \in GraphLists
    /\ call = "none"
    /\ merged = None
    /\ ChunkIdle
    /\ ExtractIdle
    /\ PathIdle
    /\ CypherIdle
    /\ UploadIdle

MergeNext == MergeGiven \/ MergeTwice \/ MergeMerged \/ MergeSwapped

MergeSpec == MergeInit /\ [][MergeNext]_vars

\* ------------------------------------------------------------------------
\* Claims about _merge_graphs
\* ------------------------------------------------------------------------
Triple(rel) == <<rel.source, rel.target, rel.type>>

NodeIdSet(g) == {g.nodes[n].id : n \in 1..Len(g.nodes)}
NodeSet(g) == {g.nodes[n] : n \in 1..Len(g.nodes)}
TripleSet(g) == {Triple(g.relationships[n]) : n \in 1..Len(g.relationships)}

\* every node declaration of a list of chunk graphs, in chunk order
RECURSIVE Declarations(_)
Declarations(gs) == IF gs = <<>> THEN <<>> ELSE Head(gs).nodes \o Declarations(Tail(gs))

\* the first declaration of id in decl
FirstDeclaration(decl, id) ==
    decl[CHOOSE k \in 1..Len(decl) :
            decl[k].id = id /\ \A j \in 1..(k - 1) : decl[j].id # id]

FirstWins(gs, g) ==
    LET decl == Declarations(gs)
    IN  /\ \A n \in 1..Len(g.nodes) :
              /\ \E k \in 1..Len(decl) : decl[k].id = g.nodes[n].id
              /\ g.nodes[n] = FirstDeclaration(decl, g.nodes[n].id)
        /\ \A k \in 1..Len(decl) : decl[k].id \in NodeIdSet(g)

\* some id is declared with two different types
TypeConflict(gs) ==
    LET decl == Declarations(gs)
    IN  \E j, k \in 1..Len(decl) : decl[j].id = decl[k].id /\ decl[j].type # decl[k].type

HasRepeats(seq) == \E j, k \in 1..Len(seq) : j # k /\ seq[j] = seq[k]

\* C7: whatever list of chunk graphs is merged, no two nodes of the result
\* have the same id and no two relationships the same (source, target, type).
C7_MergedGraphDeduplicated ==
    call # "none" =>
        /\ \A m, n \in 1..Len(merged.nodes) :
              m # n => merged.nodes[m].id # merged.nodes[n].id
        /\ \A m, n \in 1..Len(merged.relationships) :
              m # n => Triple(merged.relationships[m]) # Triple(merged.relationships[n])

C7_Witness ==
    /\ call = "given"
    /\ \E c \in 1..Len(graphs) :
          /\ HasRepeats([n \in 1..Len(graphs[c].nodes) |-> graphs[c].nodes[n].id])
          /\ HasRepeats(graphs[c].relationships)
    /\ Len(merged.nodes) = 1
    /\ Len(merged.relationships) = 1

\* C8: each node of the merged graph is the first declaration of its id in
\* chunk order, also when a later declaration (of another chunk or the same)
\* gives the id another type; every declared id is in the merged graph.
C8_FirstDeclarationWins ==
    /\ call = "given" => FirstWins(graphs, merged)
    /\ call = "swapped" => FirstWins(<<graphs[2], graphs[1]>>, merged)

C8_Witness ==
    /\ call = "given"
    /\ Len(graphs) = 2
    /\ \E m \in 1..Len(graphs[1].nodes), n \in 1..Len(graphs[2].nodes) :
          /\ graphs[1].nodes[m].id = graphs[2].nodes[n].id
          /\ graphs[1].nodes[m].type # graphs[2].nodes[n].type
          /\ graphs[1].nodes[m] \in NodeSet(merged)
          /\ graphs[2].nodes[n] \notin NodeSet(merged)

\* C9: merging the list followed by itself, and merging the merged graph once
\* more, both give the graph of the first merge: the same nodes and the same
\* relationships in the same order.
C9_MergeIdempotent ==
    /\ call = "twice" => merged = _merge_graphs(graphs)
    /\ call = "merged" => merged = _merge_graphs(graphs)

C9_Witness ==
    /\ call = "twice"
    /\ Len(graphs) = 2
    /\ Len(merged.nodes) >= 1
    /\ Len(merged.relationships) = 2
    /\ graphs[1].relationships # <<>>
    /\ graphs[2].relationships # <<>>

\* C10: merging [B, A] gives the node ids and the relationship triples of
\* merging [A, B]; the nodes agree too unless an id is declared with two
\* types, and then each merge keeps the first declaration of its own order.
C10_MergeOrderKeepsContent ==
    call = "swapped" =>
        LET ab == _merge_graphs(graphs)
        IN  /\ NodeIdSet(merged) = NodeIdSet(ab)
            /\ TripleSet(merged) = TripleSet(ab)
            /\ ~TypeConflict(graphs) => NodeSet(merged) = NodeSet(ab)
            /\ FirstWins(<<graphs[2], graphs[1]>>, merged)
            /\ FirstWins(graphs, ab)

C10_Witness ==
    /\ call = "swapped"
    /\ TypeConflict(graphs)
    /\ NodeSet(merged) # NodeSet(_merge_graphs(graphs))
    /\ TripleSet(graphs[1]) # TripleSet(graphs[2])

\* ------------------------------------------------------------------------
\* knowledge_graph.py: _chunk_text(text, chunk_size, overlap).  A text is the
\* sequence of its characters.
\* ------------------------------------------------------------------------
MaxTextLen == 5     \* characters of a text at most
MaxChunkSize == 3   \* chunk_size at most
MaxOverlap == 3     \* overlap at most

Alphabet == {"a", "b"}
Texts == UNION {[1..n -> Alphabet] : n \in 0..MaxTextLen}

\* Python's range(start, stop, step) as a list; step = 0 is the caller's ValueError
RECURSIVE Range(_, _, _)
Range(start, stop, step) ==
    IF step > 0
    THEN IF start >= stop THEN <<>> ELSE <<start>> \o Range(start + step, stop, step)
    ELSE IF start <= stop THEN <<>> ELSE <<start>> \o Range(start + step, stop, step)

\* Python's s[i:j] for 0 <= i <= j: the characters at 0-based positions i..j-1 that exist
Slice(s, i, j) == SubSeq(s, i + 1, Min(j, Len(s)))

\* the step of the range with the overlap ignored
Stride_NoOverlap(size, lap) == size

\* line 94: chunk_size - overlap
Stride(size, lap) == size - lap

\* lines 92-94
_chunk_text(t, size, lap) ==
    IF Len(t) <= size
    THEN [kind |-> "list", items |-> <<t>>]
    ELSE IF Stride(size, lap) = 0
         THEN [kind |-> "raised", error |-> "ValueError: range() arg 3 must not be zero"]
         ELSE LET starts == Range(0, Len(t), Stride(size, lap))
              IN  [kind |-> "list",
                   items |-> [n \in 1..Len(starts) |-> Slice(t, starts[n], starts[n] + size)]]

ChunkText ==
    /\ chunks = None
    /\ chunks' = _chunk_text(text, chunk_size, overlap)
    /\ UNCHANGED <<text, chunk_size, overlap>>
    /\ UNCHANGED notChunk

ChunkInit ==
    /\ text \in Texts
    /\ chunk_size \in 1..MaxChunkSize
    /\ overlap \in 0..MaxOverlap
    /\ chunks = None
    /\ OrchInit
    /\ requests = {}
    /\ MergeIdle
    /\ ExtractIdle
    /\ PathIdle
    /\ CypherIdle
    /\ UploadIdle

ChunkNext == ChunkText

ChunkSpec == ChunkInit /\ [][ChunkNext]_vars

\* ------------------------------------------------------------------------
\* Claims about _chunk_text
\* ------------------------------------------------------------------------
\* s[lap:]: s without its first lap characters
DropFirst(s, lap) == SubSeq(s, lap + 1, Len(s))

RECURSIVE Concat(_)
Concat(ss) == IF ss = <<>> THEN <<>> ELSE Head(ss) \o Concat(Tail(ss))

\* the first chunk whole, every later chunk without its first lap characters
Reassembled(items, lap) ==
    Concat([n \in 1..Len(items) |-> IF n = 1 THEN items[n] ELSE DropFirst(items[n], lap)])

\* ceil(a / b) for a >= 0, b > 0
CeilDiv(a, b) == (a + b - 1) \div b

\* C13: for 0 <= overlap < chunk_size, the first chunk followed by the later
\* chunks without their first overlap characters is the text; a text no
\* longer than chunk_size gives the single chunk that is the text.
C13_ChunksReassembleToText ==
    (chunks # None /\ overlap < chunk_size) =>
        /\ chunks.kind = "list"
        /\ Reassembled(chunks.items, overlap) = text
        /\ Len(text) <= chunk_size => chunks.items = <<text>>

C13_Witness ==
    /\ chunks # None
    /\ overlap = 2
    /\ chunk_size = 3
    /\ Len(text) = 5
    /\ \E n \in 1..4 : text[n] # text[n + 1]
    /\ Len(chunks.items) >= 3

\* C14: for a text longer than chunk_size and overlap < chunk_size the number
\* of chunks is ceil((len(text) - overlap) / (chunk_size - overlap)).
C14_ChunkCount ==
    (chunks # None /\ overlap < chunk_size /\ Len(text) > chunk_size) =>
        /\ chunks.kind = "list"
        /\ Len(chunks.items) = CeilDiv(Len(text) - overlap, chunk_size - overlap)

\* C15: with overlap >= chunk_size the chunker still returns a list of chunks
\* that covers the text from its first character to its last: it does not
\* raise, and a non-empty text gives at least one chunk, the first a prefix of
\* the text and the last reaching its end.
C15_OverlapNotBelowChunkSize ==
    (chunks # None /\ overlap >= chunk_size) =>
        /\ chunks.kind = "list"
        /\ text # <<>> =>
              /\ chunks.items # <<>>
              /\ chunks.items[1] = SubSeq(text, 1, Len(chunks.items[1]))
              /\ LET last == chunks.items[Len(chunks.items)]
                 IN  last = SubSeq(text, Len(text) - Len(last) + 1, Len(text))


\* ------------------------------------------------------------------------
\* knowledge_graph.py: generate_graph_from_text_custom and
\* process_text_in_chunks.  One task per chunk; a task runs from its start to
\* "await llm.ainvoke" and from there to its end without interruption.
\* ------------------------------------------------------------------------

MaxChunks == 3
ChunkIndices == 1..MaxChunks

\* JSON values the model can answer with: an array or something else
JsonList(items) == [kind |-> "list", items |-> items]
JsonString == [kind |-> "str"]

\* how llm.ainvoke ends for one chunk: it raises, or it answers with text
\* that extract_json_from_text cannot decode, or with a JSON object
LlmReplies ==
    {[kind |-> "api_error"],
     [kind |-> "malformed"],
     [kind |-> "json", data |-> << >>],
     [kind |-> "json",
      data |-> [nodes |-> JsonList(<<[id |-> "a", type |-> "Material"]>>)]],
     [kind |-> "json",
      data |-> [nodes |-> JsonString, relationships |-> JsonList(<<>>)]],
     [kind |-> "json",
      data |-> [nodes |-> JsonList(<<[id |-> "a", type |-> "Material"], [id |-> "b"]>>),
                relationships |-> JsonList(<<[source |-> "a", target |-> "b",
                                              type |-> "USED_IN"]>>)]],
     [kind |-> "json",
      data |-> [nodes |-> JsonList(<<[id |-> "a", type |-> "Process"],
                                     [id |-> "b", type |-> "Material"]>>),
                relationships |-> JsonList(<<>>)]]}

Raised(error) == [kind |-> "raised", error |-> error]

\* dict.get(key, default)
Get(d, key, default) == IF key \in DOMAIN d THEN d[key] ELSE default

IsList(v) == v.kind = "list"
HasNodeFields(n) == {"id", "type"} \subseteq DOMAIN n
HasRelFields(r) == {"source", "target", "type"} \subseteq DOMAIN r

\* the part of generate_graph_from_text_custom after llm.ainvoke
GraphFromReply(reply) ==
    IF reply.kind = "api_error" THEN Raised("RuntimeError: LLM API call failed")
    ELSE IF reply.kind = "malformed"
    THEN Raised("RuntimeError: LLM returned malformed JSON")
    ELSE LET nodes_raw == Get(reply.data, "nodes", JsonList(<<>>))
             rels_raw == Get(reply.data, "relationships", JsonList(<<>>))
         IN  IF ~IsList(nodes_raw) \/ ~IsList(rels_raw)
             THEN Raised("RuntimeError: nodes and relationships must be arrays")
             ELSE KnowledgeGraphResponse(SelectSeq(nodes_raw.items, HasNodeFields),
                                         SelectSeq(rels_raw.items, HasRelFields))

\* isinstance(res, KnowledgeGraphResponse)
IsGraph(res) == "nodes" \in DOMAIN res

\* asyncio.gather(*tasks, return_exceptions=True): the value or exception of
\* every task, in the order the tasks were given
gather_AsCompleted(rs, order) == [n \in 1..Len(order) |-> rs[order[n]]]
gather(rs, order) == rs

successful_graphs(rs) == SelectSeq(rs, IsGraph)

\* "if not successful_graphs"
NoUsableResult_AnyFailure(rs) == \E n \in 1..Len(rs) : ~IsGraph(rs[n])
NoUsableResult(rs) == successful_graphs(rs) = <<>>

\* asyncio starts the tasks of a gather in the order they were given
MayStart(i) ==
    /\ i <= n_chunks
    /\ outcome = "running"
    /\ task[i] = "pending"
    /\ \A j \in 1..(i - 1) : task[j] # "pending"

EndTask(i, res) ==
    /\ task' = [task EXCEPT ![i] = "done"]
    /\ results' = [results EXCEPT ![i] = res]
    /\ finished' = Append(finished, i)

\* the task of chunk i starts and finds no GROQ_API_KEY
TaskRaisesNoKey(i) ==
    /\ MayStart(i)
    /\ ~groq_api_key
    /\ EndTask(i, Raised("ValueError: GROQ_API_KEY environment variable not set."))
    /\ UNCHANGED <<n_chunks, outcome, groq_api_key, llm_reply, mergeVars>>
    /\ UNCHANGED notExtract

\* the task of chunk i starts and runs to "await llm.ainvoke(prompt)"
TaskAwaitLlm(i) ==
    /\ MayStart(i)
    /\ groq_api_key
    /\ task' = [task EXCEPT ![i] = "await_llm"]
    /\ UNCHANGED <<n_chunks, results, finished, outcome, groq_api_key, llm_reply, mergeVars>>
    /\ UNCHANGED notExtract

\* llm.ainvoke ends for chunk i and the task runs to its end
TaskResume(i) ==
    /\ i <= n_chunks
    /\ task[i] = "await_llm"
    /\ \E reply \in LlmReplies :
          /\ llm_reply' = [llm_reply EXCEPT ![i] = reply]
          /\ EndTask(i, GraphFromReply(reply))
    /\ UNCHANGED <<n_chunks, outcome, groq_api_key, mergeVars>>
    /\ UNCHANGED notExtract

AllTasksDone == \A i \in 1..n_chunks : task[i] = "done"

\* gather returns once every task has ended; no chunk gave a graph
ProcessRaises ==
    /\ outcome = "running"
    /\ AllTasksDone
    /\ NoUsableResult(gather(results, finished))
    /\ outcome' = "raised"
    /\ UNCHANGED <<n_chunks, task, results, finished, groq_api_key, llm_reply, mergeVars>>
    /\ UNCHANGED notExtract

\* gather returns once every task has ended; the graphs are merged
ProcessReturns ==
    /\ outcome = "running"
    /\ AllTasksDone
    /\ ~NoUsableResult(gather(results, finished))
    /\ graphs' = successful_graphs(gather(results, finished))
    /\ call' = "given"
    /\ merged' = _merge_graphs(graphs')
    /\ outcome' = "returned"
    /\ UNCHANGED <<n_chunks, task, results, finished, groq_api_key, llm_reply>>
    /\ UNCHANGED notExtract

\* process_text_in_chunks was called with a text of n_chunks chunks and has
\* created the tasks
ExtractInit ==
    /\ n_chunks \in 1..MaxChunks
    /\ task = [i \in 1..n_chunks |-> "pending"]
    /\ results = [i \in 1..n_chunks |-> None]
    /\ finished = <<>>
    /\ outcome = "running"
    /\ groq_api_key \in BOOLEAN
    /\ llm_reply = [i \in 1..n_chunks |-> None]
    /\ OrchInit /\ requests = {}
    /\ MergeIdle
    /\ ChunkIdle
    /\ PathIdle
    /\ CypherIdle
    /\ UploadIdle

ExtractNext ==
    \/ \E i \in ChunkIndices : TaskRaisesNoKey(i)
    \/ \E i \in ChunkIndices : TaskAwaitLlm(i)
    \/ \E i \in ChunkIndices : TaskResume(i)
    \/ ProcessRaises
    \/ ProcessReturns

ExtractSpec == ExtractInit /\ [][ExtractNext]_vars

\* the chunks whose extraction gave a graph, in chunk order
Succeeded == {i \in 1..n_chunks : task[i] = "done" /\ IsGraph(results[i])}

RECURSIVE InChunkOrder(_, _)
InChunkOrder(S, n) ==
    IF n = 0 THEN <<>>
    ELSE InChunkOrder(S, n - 1) \o (IF n \in S THEN <<results[n]>> ELSE <<>>)

\* C11: process_text_in_chunks fails if and only if every chunk's extraction
\* failed; when at least one chunk succeeded it returns the merge of exactly
\* the successful chunk graphs, so a partial failure never fails the pipeline.
C11_FailsIffEveryChunkFailed ==
    /\ outcome = "raised" => Succeeded = {}
    /\ outcome = "returned" =>
          /\ Succeeded # {}
          /\ graphs = InChunkOrder(Succeeded, n_chunks)
          /\ merged = _merge_graphs(InChunkOrder(Succeeded, n_chunks))

\* two chunks failed in different ways, one succeeded, and the call returned
C11_Witness ==
    /\ outcome = "returned"
    /\ n_chunks = 3
    /\ Cardinality(Succeeded) = 1
    /\ \E i, j \in 1..n_chunks :
          /\ results[i] = Raised("RuntimeError: LLM API call failed")
          /\ results[j] = Raised("RuntimeError: LLM returned malformed JSON")

\* C12: in every interleaving each extraction task runs to its own end
\* whatever happened to its siblings, merging starts only after all of them
\* have ended, and the merged graph is the merge of the successful graphs in
\* chunk order, whatever order the tasks ended in.
C12_MergeAfterAllInChunkOrder ==
    /\ outcome \in {"returned", "raised"} =>
          /\ AllTasksDone
          /\ Len(finished) = n_chunks
          /\ \A i \in 1..n_chunks : results[i] # None
    /\ outcome = "running" => merged = None
    /\ outcome = "returned" =>
          merged = _merge_graphs(InChunkOrder(Succeeded, n_chunks))
    /\ \A i \in 1..n_chunks :
          task[i] # "done" => (outcome = "running" /\ results[i] = None)

\* the last chunk ended first with a graph that declares "a" differently from
\* the first chunk's graph, a sibling failed in between, and the call returned
C12_Witness ==
    /\ outcome = "returned"
    /\ n_chunks = 3
    /\ finished = <<3, 2, 1>>
    /\ ~IsGraph(results[2])
    /\ IsGraph(results[1]) /\ IsGraph(results[3])
    /\ results[1].nodes # <<>> /\ results[3].nodes # <<>>
    /\ results[1].nodes[1].id = results[3].nodes[1].id
    /\ results[1].nodes[1].type # results[3].nodes[1].type
    /\ merged.nodes[1].type = results[1].nodes[1].type

\* the decoded object has a list-typed "nodes" and a list-typed "relationships"
HasBothLists(data) ==
    /\ {"nodes", "relationships"} \subseteq DOMAIN data
    /\ IsList(data.nodes)
    /\ IsList(data.relationships)

\* C23: the extraction of a chunk fails whenever the decoded model output
\* does not have both a list-typed "nodes" key and a list-typed
\* "relationships" key, an absent key included; such output never yields a
\* successful ChunkGraph.
C23_ShapeErrorWithoutBothLists ==
    \A i \in 1..n_chunks :
        (/\ task[i] = "done"
         /\ llm_reply[i] # None
         /\ llm_reply[i].kind = "json"
         /\ ~HasBothLists(llm_reply[i].data))
            => ~IsGraph(results[i])

\* ------------------------------------------------------------------------
\* knowledge_graph.py: _build_adjacency, path_discovery and
\* extract_exceptional_insight (with llm_wrapper.call_llm).  Node ids and
\* model answers are strings; keyword matching is computed on them.
\* ------------------------------------------------------------------------

MaxGraphSize == 5
MaxLine == 6
MaxHops == 5
MaxTopK == 5
DefaultMaxHops == 4
DefaultTopK == 5

UpperToLower ==
    ("A" :> "a") @@ ("B" :> "b") @@ ("C" :> "c") @@ ("D" :> "d") @@ ("E" :> "e") @@
    ("F" :> "f") @@ ("G" :> "g") @@ ("H" :> "h") @@ ("I" :> "i") @@ ("J" :> "j") @@
    ("K" :> "k") @@ ("L" :> "l") @@ ("M" :> "m") @@ ("N" :> "n") @@ ("O" :> "o") @@
    ("P" :> "p") @@ ("Q" :> "q") @@ ("R" :> "r") @@ ("S" :> "s") @@ ("T" :> "t") @@
    ("U" :> "u") @@ ("V" :> "v") @@ ("W" :> "w") @@ ("X" :> "x") @@ ("Y" :> "y") @@
    ("Z" :> "z")

\* str.lower()
RECURSIVE Lower(_)
Lower(s) ==
    IF Len(s) = 0 THEN ""
    ELSE LET c == SubSeq(s, 1, 1)
         IN  (IF c \in DOMAIN UpperToLower THEN UpperToLower[c] ELSE c)
                 \o Lower(SubSeq(s, 2, Len(s)))

\* "k in s" for strings
Contains(s, k) == \E i \in 0..(Len(s) - Len(k)) : SubSeq(s, i + 1, i + Len(k)) = k

\* str.strip()
RECURSIVE Strip(_)
Strip(s) ==
    IF Len(s) = 0 THEN ""
    ELSE IF SubSeq(s, 1, 1) = " " THEN Strip(SubSeq(s, 2, Len(s)))
    ELSE IF SubSeq(s, Len(s), Len(s)) = " " THEN Strip(SubSeq(s, 1, Len(s) - 1))
    ELSE s

source_keywords ==
    {"contamin", "particle", "metal", "ion", "precursor", "surface", "membrane",
     "material", "impurity"}
outcome_keywords ==
    {"yield", "loss", "failure", "degrad", "resist", "performance", "defect",
     "wafer", "corrosion"}

\* the node ids of the graphs checked; "Ghost" is only ever an endpoint of a
\* relationship, never a declared node
SmallIds == {"Metal", "YIELD", "Wafer Surface", "Chamber"}
DenseIds == {"Metal", "Particle", "YIELD", "Wafer Surface"}
Interior == <<"Chamber", "Pump", "Valve", "Gasket", "Flange">>
PathIds ==
    SmallIds \cup DenseIds \cup {Interior[n] : n \in 1..Len(Interior)} \cup {"Ghost"}

\* node_lower, and which ids the two comprehensions of lines 150-151 keep
node_lower == [id \in PathIds |-> Lower(id)]
MatchesSource == [id \in PathIds |-> \E k \in source_keywords : Contains(node_lower[id], k)]
MatchesOutcome == [id \in PathIds |-> \E k \in outcome_keywords : Contains(node_lower[id], k)]

PNode(id) == [id |-> id, type |-> "Concept"]
PRel(s, t) == [source |-> s, target |-> t, type |-> "IMPACTS"]

\* the keys of a dict built from a list, in insertion order
RECURSIVE DictKeys(_)
DictKeys(ids) ==
    IF ids = <<>> THEN <<>>
    ELSE LET init == DictKeys(SubSeq(ids, 1, Len(ids) - 1))
             last == ids[Len(ids)]
         IN  IF \E n \in 1..Len(init) : init[n] = last THEN init ELSE Append(init, last)

NodeKeys(g) == DictKeys([n \in 1..Len(g.nodes) |-> g.nodes[n].id])

\* the loop of _build_adjacency
AddReverse_Omitted(adj, r) == adj
AddReverse(adj, r) ==
    IF r.target \in DOMAIN adj THEN [adj EXCEPT ![r.target] = Append(@, r.source)] ELSE adj

AddForward(adj, r) ==
    IF r.source \in DOMAIN adj THEN [adj EXCEPT ![r.source] = Append(@, r.target)] ELSE adj

RECURSIVE AdjacencyLoop(_, _)
AdjacencyLoop(adj, rels) ==
    IF rels = <<>> THEN adj
    ELSE AdjacencyLoop(AddReverse(AddForward(adj, Head(rels)), Head(rels)), Tail(rels))

_build_adjacency(g) ==
    AdjacencyLoop([id \in {g.nodes[n].id : n \in 1..Len(g.nodes)} |-> <<>>],
                  g.relationships)

\* adj.get(curr, [])
Neighbours(adj, curr) == IF curr \in DOMAIN adj THEN adj[curr] ELSE <<>>

\* "nb in visited_in_path": one set for the whole search from s to t, not one
\* per path
Seen_OnThisPath(st, path, nb) == \E n \in 1..Len(path) : path[n] = nb
Seen(st, path, nb) == nb \in st.visited_in_path

\* "for nb in adj.get(curr, [])": st is the queue and visited_in_path
RECURSIVE ExpandLoop(_, _, _)
ExpandLoop(st, path, nbs) ==
    IF nbs = <<>> THEN st
    ELSE LET nb == Head(nbs)
         IN  ExpandLoop(IF ~Seen(st, path, nb)
                        THEN [q |-> Append(st.q, path \o <<nb>>),
                              visited_in_path |-> st.visited_in_path \cup {nb}]
                        ELSE st,
                        path, Tail(nbs))

\* "if len(path) > max_hops: continue"
TooLong_Never(path, hops) == FALSE
TooLong(path, hops) == Len(path) > hops

\* "while q": the paths the search from s appends to all_paths
RECURSIVE SearchLoop(_, _, _, _, _)
SearchLoop(st, found, t, adj, hops) ==
    IF st.q = <<>> THEN found
    ELSE LET path == Head(st.q)
             curr == path[Len(path)]
             rest == [st EXCEPT !.q = Tail(st.q)]
         IN  IF TooLong(path, hops) THEN SearchLoop(rest, found, t, adj, hops)
             ELSE IF curr = t THEN SearchLoop(rest, Append(found, path), t, adj, hops)
             ELSE SearchLoop(ExpandLoop(rest, path, Neighbours(adj, curr)),
                             found, t, adj, hops)

Search(s, t, adj, hops) ==
    SearchLoop([q |-> <<<<s>>>>, visited_in_path |-> {s}], <<>>, t, adj, hops)

\* "for t in targets"
RECURSIVE TargetLoop(_, _, _, _, _)
TargetLoop(pool, s, ts, adj, hops) ==
    IF ts = <<>> THEN pool
    ELSE TargetLoop(IF s = Head(ts) THEN pool ELSE pool \o Search(s, Head(ts), adj, hops),
                    s, Tail(ts), adj, hops)

\* "for s in sources"
RECURSIVE SourceLoop(_, _, _, _, _)
SourceLoop(pool, ss, ts, adj, hops) ==
    IF ss = <<>> THEN pool
    ELSE SourceLoop(TargetLoop(pool, Head(ss), ts, adj, hops), Tail(ss), ts, adj, hops)

IsSource_Any(id) == TRUE
IsSource(id) == MatchesSource[id]
IsOutcome_Any(id) == TRUE
IsOutcome(id) == MatchesOutcome[id]
sources(g) == SelectSeq(NodeKeys(g), IsSource)
targets(g) == SelectSeq(NodeKeys(g), IsOutcome)

\* all_paths when path_discovery reaches its last lines; empty when it
\* returned early
PooledPaths(g, hops) ==
    LET adj == _build_adjacency(g)
    IN  IF DOMAIN adj = {} THEN <<>>
        ELSE IF sources(g) = <<>> \/ targets(g) = <<>> THEN <<>>
        ELSE SourceLoop(<<>>, sources(g), targets(g), adj, hops)

\* list.sort(key=len): stable
InsertByLen_TiesFirst(sorted, p) ==
    LET n == Cardinality({m \in 1..Len(sorted) : Len(sorted[m]) < Len(p)})
    IN  SubSeq(sorted, 1, n) \o <<p>> \o SubSeq(sorted, n + 1, Len(sorted))
InsertByLen(sorted, p) ==
    LET n == Cardinality({m \in 1..Len(sorted) : Len(sorted[m]) <= Len(p)})
    IN  SubSeq(sorted, 1, n) \o <<p>> \o SubSeq(sorted, n + 1, Len(sorted))

RECURSIVE SortByLen(_)
SortByLen(ps) ==
    IF ps = <<>> THEN <<>>
    ELSE InsertByLen(SortByLen(SubSeq(ps, 1, Len(ps) - 1)), ps[Len(ps)])

path_discovery(g, hops, k) ==
    LET pool == PooledPaths(g, hops)
    IN  IF pool = <<>> THEN <<>> ELSE Slice(SortByLen(pool), 0, k)

\* sep.join(p); the separator of the source is an arrow between two spaces
Arrow == " -> "
RECURSIVE Join(_)
Join(p) ==
    IF Len(p) = 0 THEN ""
    ELSE IF Len(p) = 1 THEN p[1]
    ELSE p[1] \o Arrow \o Join(Tail(p))

\* llm_wrapper.call_llm: how the Groq call ends and what call_llm returns
GroqOutcomes ==
    {[kind |-> "raised", error |-> "timed out"],
     [kind |-> "no_choices"],
     [kind |-> "content", text |-> "  "],
     [kind |-> "content", text |-> " Metal residue lowers yield. "],
     [kind |-> "content", text |-> "An ERROR occurred."]}

call_llm(o) ==
    IF o.kind = "raised" THEN "[Groq API Error: " \o o.error \o "]"
    ELSE IF o.kind = "content" /\ o.text # "" THEN Strip(o.text)
    ELSE "[LLM returned an empty response]"

NoPathsExplanation == "No compelling multi-hop paths were discovered in the document."
DefaultExplanation(top_path_str) ==
    "A key relationship was discovered: " \o top_path_str
        \o ". This suggests a potential causal link or area for further investigation."

\* "if llm_explanation and 'error' not in llm_explanation.lower()"
Usable_AnyText(e) == e # ""
Usable(e) == e # "" /\ ~Contains(Lower(e), "error")

extract_exceptional_insight(g, e) ==
    LET candidate_paths == path_discovery(g, DefaultMaxHops, DefaultTopK)
        path_strings == [n \in 1..Len(candidate_paths) |-> Join(candidate_paths[n])]
    IN  IF candidate_paths = <<>>
        THEN [found |-> FALSE, explanation |-> NoPathsExplanation, paths |-> <<>>]
        ELSE [found |-> TRUE,
              explanation |-> IF Usable(e) THEN e ELSE DefaultExplanation(path_strings[1]),
              paths |-> path_strings]

Returned(v) == [kind |-> "returned", value |-> v]

\* one call path_discovery(graph, max_hops, top_k)
PathDiscovery ==
    /\ graph # None
    /\ paths = None
    /\ all_paths' = PooledPaths(graph, max_hops)
    /\ paths' = Returned(path_discovery(graph, max_hops, top_k))
    /\ UNCHANGED <<graph, max_hops, top_k, llm_explanation, insight>>
    /\ UNCHANGED notPath

\* extract_exceptional_insight(graph, context_text) finds no path and returns
\* without calling the model
InsightNoPaths ==
    /\ graph # None
    /\ insight = None
    /\ path_discovery(graph, DefaultMaxHops, DefaultTopK) = <<>>
    /\ insight' = extract_exceptional_insight(graph, "")
    /\ UNCHANGED <<graph, max_hops, top_k, all_paths, paths, llm_explanation>>
    /\ UNCHANGED notPath

\* extract_exceptional_insight(graph, context_text) finds paths and calls call_llm
InsightExplained ==
    /\ graph # None
    /\ insight = None
    /\ path_discovery(graph, DefaultMaxHops, DefaultTopK) # <<>>
    /\ \E o \in GroqOutcomes :
          /\ llm_explanation' = [kind |-> "str", value |-> call_llm(o)]
          /\ insight' = extract_exceptional_insight(graph, call_llm(o))
    /\ UNCHANGED <<graph, max_hops, top_k, all_paths, paths>>
    /\ UNCHANGED notPath

\* the graphs given: every small graph, lines from a source to an outcome,
\* graphs with several sources and outcomes, and graphs with a repeated node
\* relationships from a declared node to another one or to "Ghost"
RelsOver(ids) ==
    {PRel(ids[n], t) : n \in 1..Len(ids), t \in {ids[m] : m \in 1..Len(ids)} \cup {"Ghost"}}
        \ {PRel(ids[n], ids[n]) : n \in 1..Len(ids)}
Orderings(ids, j) == {p \in [1..j -> ids] : \A a, b \in 1..j : a # b => p[a] # p[b]}
NodeList(ids) == [n \in 1..Len(ids) |-> PNode(ids[n])]

SmallGraphGiven ==
    \E j \in 0..(MaxGraphSize - 2) :
      \E ids \in Orderings(SmallIds, j) :
        \E m \in 0..(MaxGraphSize - j) :
          \E rs \in [1..m -> RelsOver(ids)] :
            /\ graph = KnowledgeGraphResponse(NodeList(ids), rs)
            /\ max_hops = DefaultMaxHops
            /\ top_k = DefaultTopK

Line(n) == <<"Metal">> \o SubSeq(Interior, 1, n - 2) \o <<"YIELD">>
LineGraphGiven ==
    \E n \in 2..MaxLine :
      \E fwd \in [1..(n - 1) -> BOOLEAN] :
        /\ graph = KnowledgeGraphResponse(
                       NodeList(Line(n)),
                       [m \in 1..(n - 1) |-> IF fwd[m] THEN PRel(Line(n)[m], Line(n)[m + 1])
                                             ELSE PRel(Line(n)[m + 1], Line(n)[m])])
        /\ max_hops \in 0..MaxHops
        /\ top_k \in {1, DefaultTopK}

DenseRels ==
    {<<PRel("Metal", "Wafer Surface"), PRel("Ghost", "Metal"), PRel("Wafer Surface", "YIELD"),
       PRel("Particle", "Wafer Surface")>>,
     <<PRel("Metal", "YIELD"), PRel("YIELD", "Particle"), PRel("Metal", "Wafer Surface"),
       PRel("Particle", "Wafer Surface")>>,
     <<PRel("Metal", "Particle"), PRel("Particle", "YIELD"), PRel("YIELD", "Wafer Surface"),
       PRel("Wafer Surface", "Metal")>>}
DenseGraphGiven ==
    \E ids \in Orderings(DenseIds, Cardinality(DenseIds)) :
      \E rs \in DenseRels :
        /\ graph = KnowledgeGraphResponse(NodeList(ids), rs)
        /\ max_hops \in 1..DefaultMaxHops
        /\ top_k \in 0..MaxTopK

\* the first node is declared a second time
RepeatGraphGiven ==
    \E ids \in Orderings(DenseIds, Cardinality(DenseIds)) :
      \E rs \in DenseRels :
        /\ graph = KnowledgeGraphResponse(NodeList(ids \o <<ids[1]>>), rs)
        /\ max_hops = DefaultMaxHops
        /\ top_k = DefaultTopK

PathInit ==
    /\ \/ SmallGraphGiven
       \/ LineGraphGiven
       \/ DenseGraphGiven
       \/ RepeatGraphGiven
    /\ all_paths = <<>>
    /\ paths = None
    /\ llm_explanation = None
    /\ insight = None
    /\ OrchInit /\ requests = {}
    /\ MergeIdle
    /\ ChunkIdle
    /\ ExtractIdle
    /\ CypherIdle
    /\ UploadIdle

PathNext ==
    \/ PathDiscovery
    \/ InsightNoPaths
    \/ InsightExplained

PathSpec == PathInit /\ [][PathNext]_vars

\* what the claims about path_discovery speak of
Returned_paths == paths.value
Edges(path) == Len(path) - 1
Joined(a, b) ==
    \E n \in 1..Len(graph.relationships) :
        {graph.relationships[n].source, graph.relationships[n].target} = {a, b}
DeclaredIds == {graph.nodes[n].id : n \in 1..Len(graph.nodes)}
IsWalk(path) ==
    /\ \A n \in 1..Len(path) : path[n] \in DeclaredIds
    /\ \A n \in 1..(Len(path) - 1) : Joined(path[n], path[n + 1])
SourceIds == {id \in DeclaredIds : MatchesSource[id]}
OutcomeIds == {id \in DeclaredIds : MatchesOutcome[id]}

\* the ids within n edges of id a, relationships taken in both directions
RECURSIVE Within(_, _)
Within(a, n) ==
    IF n = 0 THEN {a}
    ELSE LET near == Within(a, n - 1)
         IN  near \cup {b \in DeclaredIds : \E c \in near : Joined(c, b)}

\* C16: path_discovery returns at most top_k paths, every returned path is a
\* path of the graph with at most max_hops edges, and a source and an outcome
\* that are more than max_hops edges apart (five edges with max_hops = 4)
\* get no path.
C16_AtMostTopKWithinMaxHops ==
    paths # None =>
        /\ Len(Returned_paths) <= top_k
        /\ \A n \in 1..Len(Returned_paths) :
              /\ Edges(Returned_paths[n]) <= max_hops
              /\ IsWalk(Returned_paths[n])
        /\ \A s \in SourceIds, t \in OutcomeIds :
              t \notin Within(s, max_hops) =>
                  ~\E n \in 1..Len(Returned_paths) :
                      /\ Returned_paths[n][1] = s
                      /\ Returned_paths[n][Len(Returned_paths[n])] = t

\* more paths were pooled than top_k allows, and top_k of them were returned
C16_Witness ==
    /\ paths # None
    /\ top_k > 0
    /\ Len(all_paths) > top_k
    /\ Len(Returned_paths) = top_k
    /\ \E n \in 1..Len(Returned_paths) : Edges(Returned_paths[n]) = 2

\* a line of six nodes from the source to the outcome, searched with
\* max_hops = 4, gave nothing
C16_FiveHopsWitness ==
    /\ paths # None
    /\ max_hops = DefaultMaxHops
    /\ Len(graph.nodes) = 6
    /\ Len(graph.relationships) = 5
    /\ "YIELD" \in Within("Metal", 5) \ Within("Metal", 4)
    /\ Returned_paths = <<>>

\* the graph is a line a - b - c: three declared nodes, each relationship
\* joins a and b or b and c (in either direction), and both pairs are joined
IsLine(a, b, c) ==
    /\ Cardinality({a, b, c}) = 3
    /\ Len(graph.nodes) = 3
    /\ DeclaredIds = {a, b, c}
    /\ Joined(a, b) /\ Joined(b, c)
    /\ \A n \in 1..Len(graph.relationships) :
          {graph.relationships[n].source, graph.relationships[n].target}
              \in {{a, b}, {b, c}}

\* C17: for a line graph A - B - C in which A is the only node matching a
\* source keyword and C the only node matching an outcome keyword,
\* path_discovery with max_hops = 4 and top_k >= 1 returns exactly the one
\* path [A, B, C], whichever way the two relationships were recorded.
C17_LineGraphOnePath ==
    (paths # None /\ max_hops = 4 /\ top_k >= 1) =>
        \A a, b, c \in DeclaredIds :
            (IsLine(a, b, c) /\ SourceIds = {a} /\ OutcomeIds = {c}) =>
                Returned_paths = <<<<a, b, c>>>>

\* the line Metal - Chamber - YIELD with both relationships recorded from the
\* outcome towards the source
C17_Witness ==
    /\ paths # None
    /\ max_hops = 4
    /\ IsLine("Metal", "Chamber", "YIELD")
    /\ \A n \in 1..Len(graph.relationships) :
          graph.relationships[n] \in {PRel("YIELD", "Chamber"), PRel("Chamber", "Metal")}
    /\ Returned_paths = <<<<"Metal", "Chamber", "YIELD">>>>

\* C18: path_discovery returns the empty list, without error, when the graph
\* has no nodes, when no node id matches a source keyword, or when no node id
\* matches an outcome keyword.
C18_EmptyWithoutSourceOrOutcome ==
    (paths # None /\ (graph.nodes = <<>> \/ SourceIds = {} \/ OutcomeIds = {})) =>
        (paths.kind = "returned" /\ Returned_paths = <<>>)

\* an outcome node joined to a node that matches no source keyword
C18_Witness ==
    /\ paths # None
    /\ SourceIds = {}
    /\ OutcomeIds # {}
    /\ \E t \in OutcomeIds, b \in DeclaredIds : t # b /\ Joined(t, b)
    /\ Returned_paths = <<>>

\* position of an id in the node list
Pos(id) == CHOOSE n \in 1..Len(graph.nodes) :
               /\ graph.nodes[n].id = id
               /\ \A m \in 1..(n - 1) : graph.nodes[m].id # id

Last(path) == path[Len(path)]

\* pooled path i comes before pooled path j in the ranking
RankedBefore(i, j) ==
    \/ Len(all_paths[i]) < Len(all_paths[j])
    \/ Len(all_paths[i]) = Len(all_paths[j]) /\ i < j

Rank(i) == 1 + Cardinality({j \in 1..Len(all_paths) : RankedBefore(j, i)})

\* C19: the returned list is the first top_k of the pooled paths ranked by
\* length, paths of equal length staying in their discovery order, and the
\* pool is in discovery order: by source in node order, then by outcome in
\* node order.
C19_ShortestFirstStable ==
    paths # None =>
        /\ Len(Returned_paths) = Min(top_k, Len(all_paths))
        /\ \A i \in 1..Len(all_paths) :
              Rank(i) <= top_k => Returned_paths[Rank(i)] = all_paths[i]
        /\ \A i, j \in 1..Len(all_paths) :
              i < j =>
                  \/ Pos(all_paths[i][1]) < Pos(all_paths[j][1])
                  \/ /\ all_paths[i][1] = all_paths[j][1]
                     /\ Pos(Last(all_paths[i])) < Pos(Last(all_paths[j]))

\* a longer path was discovered before two shorter ones of equal length, and
\* the list was cut
C19_Witness ==
    /\ paths # None
    /\ Len(all_paths) > top_k
    /\ top_k >= 2
    /\ \E i, j, l \in 1..Len(all_paths) :
          /\ i < j /\ j < l
          /\ Len(all_paths[i]) > Len(all_paths[j])
          /\ Len(all_paths[j]) = Len(all_paths[l])
          /\ Returned_paths[1] = all_paths[j]
          /\ Returned_paths[2] = all_paths[l]

\* the call threw inside call_llm or came back error-flagged
ErrorFlagged(e) == Contains(Lower(e), "error")
RankedDefault == path_discovery(graph, DefaultMaxHops, DefaultTopK)

\* C20: extract_exceptional_insight never fails because the explanation call
\* failed: when the call throws or returns an error-flagged string the result
\* has found = true, the templated sentence naming the top-ranked path, and
\* all ranked paths; when there are no paths it has found = false and no paths.
C20_InsightDegradesToTemplate ==
    insight # None =>
        /\ RankedDefault = <<>> => (~insight.found /\ insight.paths = <<>>)
        /\ RankedDefault # <<>> =>
              /\ llm_explanation # None
              /\ insight.found
              /\ insight.paths = [n \in 1..Len(RankedDefault) |-> Join(RankedDefault[n])]
              /\ ErrorFlagged(llm_explanation.value) =>
                    insight.explanation =
                        "A key relationship was discovered: " \o Join(RankedDefault[1])
                          \o ". This suggests a potential causal link or area for further investigation."

\* the Groq call timed out and two paths were ranked
C20_Witness ==
    /\ insight # None
    /\ llm_explanation # None
    /\ llm_explanation.value = "[Groq API Error: timed out]"
    /\ insight.found
    /\ Len(insight.paths) >= 2
    /\ insight.paths[1] = "Metal -> Wafer Surface"

\* a pooled path from s to t
Pooled(s, t) ==
    \E n \in 1..Len(all_paths) : all_paths[n][1] = s /\ Last(all_paths[n]) = t

\* C25: whenever a source node s and a different outcome node t are joined in
\* the undirected adjacency by a path of h edges with h <= max_hops, the pool
\* of path_discovery holds a path from s to t; in particular for h = max_hops.
C25_PairWithinMaxHopsIsPooled ==
    paths # None =>
        \A s \in SourceIds, t \in OutcomeIds :
            (s # t /\ t \in Within(s, max_hops)) => Pooled(s, t)

\* the simple paths of the graph that go on from path to t in at most h more
\* edges
RECURSIVE SimplePaths(_, _, _)
SimplePaths(path, t, h) ==
    IF Last(path) = t THEN {path}
    ELSE IF h = 0 THEN {}
    ELSE UNION {SimplePaths(Append(path, b), t, h - 1) :
                    b \in {c \in DeclaredIds : /\ Joined(Last(path), c)
                                               /\ \A n \in 1..Len(path) : path[n] # c}}

\* C26 as claimed: when a source node and an outcome node are joined by two
\* or more distinct simple paths within the hop bound, path_discovery pools
\* each of them, so one pair can have more than one path in the pool.
C26_EverySimplePathIsPooled ==
    paths # None =>
        \A s \in SourceIds, t \in OutcomeIds :
            (s # t /\ Cardinality(SimplePaths(<<s>>, t, max_hops)) >= 2) =>
                \A p \in SimplePaths(<<s>>, t, max_hops) :
                    \E n \in 1..Len(all_paths) : all_paths[n] = p

\* C26: path_discovery pools at most one path for a (source, outcome) pair,
\* however many simple paths join the two, and that path has the fewest
\* edges of all the paths joining them; two paths of the pool always belong
\* to different pairs.
C26_OnePathPerPair ==
    paths # None =>
        /\ \A i, j \in 1..Len(all_paths) :
              (all_paths[i][1] = all_paths[j][1] /\ Last(all_paths[i]) = Last(all_paths[j]))
                  => i = j
        /\ \A i \in 1..Len(all_paths) :
              Last(all_paths[i]) \notin Within(all_paths[i][1], Edges(all_paths[i]) - 1)

\* Metal and YIELD are joined directly and by a second simple path of three
\* edges, both inside the default bound, and the pool holds the direct one
C26_Witness ==
    /\ paths # None
    /\ max_hops = DefaultMaxHops
    /\ {<<"Metal", "YIELD">>, <<"Metal", "Wafer Surface", "Particle", "YIELD">>}
           \subseteq SimplePaths(<<"Metal">>, "YIELD", max_hops - 1)
    /\ \E n \in 1..Len(all_paths) : all_paths[n] = <<"Metal", "YIELD">>
    /\ \A n \in 1..Len(all_paths) :
          all_paths[n] # <<"Metal", "Wafer Surface", "Particle", "YIELD">>

\* C27: every path path_discovery returns, also for graphs with relationships
\* whose endpoints were never declared as nodes, has at least 2 node ids,
\* repeats no id, starts at a node matching a source keyword, ends at a
\* different node matching an outcome keyword, consists of declared node ids
\* only, and has each consecutive pair joined by a relationship in one
\* direction or the other.
C27_ReturnedPathsAreSimpleWalks ==
    paths # None =>
        \A n \in 1..Len(Returned_paths) :
            LET p == Returned_paths[n]
            IN  /\ Len(p) >= 2
                /\ \A a, b \in 1..Len(p) : a # b => p[a] # p[b]
                /\ p[1] \in SourceIds
                /\ Last(p) \in OutcomeIds
                /\ p[1] # Last(p)
                /\ IsWalk(p)

\* a path of three nodes was returned whose first node is also the target of
\* a relationship from an undeclared node
C27_Witness ==
    /\ paths # None
    /\ \E n \in 1..Len(Returned_paths), m \in 1..Len(graph.relationships) :
          /\ Len(Returned_paths[n]) >= 3
          /\ graph.relationships[m].source \notin DeclaredIds
          /\ graph.relationships[m].target = Returned_paths[n][1]

\* ------------------------------------------------------------------------
\* utils.py: text_to_cypher_simple.  The patterns are kept as syntax trees and
\* matched the way Python's re matches them: leftmost start, alternatives in
\* order, greedy repetition, backtracking.  A match state is the position of
\* the next character and the groups captured so far.
\* ------------------------------------------------------------------------

Letters ==
    {"a", "b", "c", "d", "e", "f", "g", "h", "i", "j", "k", "l", "m", "n", "o", "p", "q",
     "r", "s", "t", "u", "v", "w", "x", "y", "z"}
Digits == {"0", "1", "2", "3", "4", "5", "6", "7", "8", "9"}

\* character classes: \s, [A-Za-z0-9_], [^'"], ['"], [A-Za-z0-9_'-]
Class(chars) == [neg |-> FALSE, chars |-> chars]
NotClass(chars) == [neg |-> TRUE, chars |-> chars]
Space == Class({" ", "\t", "\n", "\r"})
Word == Class(Letters \cup DOMAIN UpperToLower \cup Digits \cup {"_"})
Quote == Class({"'", "\""})
NotQuote == NotClass({"'", "\""})
ValueChar == Class(Letters \cup DOMAIN UpperToLower \cup Digits \cup {"_", "'", "-"})

InClass(c, cls) == IF cls.neg THEN c \notin cls.chars ELSE c \in cls.chars

\* pattern syntax
Lit(str) == [kind |-> "lit", str |-> str]
One(cls) == [kind |-> "one", cls |-> cls]
Plus(cls) == [kind |-> "plus", cls |-> cls]
Star(cls) == [kind |-> "star", cls |-> cls]
Opt(r) == [kind |-> "opt", of |-> r]
Alt(rs) == [kind |-> "alt", items |-> rs]
Cat(rs) == [kind |-> "cat", items |-> rs]
Group(index, r) == [kind |-> "group", index |-> index, of |-> r]

\* the character at position p, "" past the end
At(s, p) == IF p <= Len(s) THEN SubSeq(s, p, p) ELSE ""

\* the end of the longest run of class characters from position p
RECURSIVE RunEnd(_, _, _)
RunEnd(s, p, cls) ==
    IF p <= Len(s) /\ InClass(At(s, p), cls) THEN RunEnd(s, p + 1, cls) ELSE p

\* concatenation of a list of lists
RECURSIVE Flatten(_)
Flatten(ls) == IF ls = <<>> THEN <<>> ELSE Head(ls) \o Flatten(Tail(ls))

\* the ways pattern r matches s from state st, most preferred first
RECURSIVE Match(_, _, _)
RECURSIVE MatchCat(_, _, _)
Match(r, s, st) ==
    CASE r.kind = "lit" ->
           IF st.pos + Len(r.str) - 1 <= Len(s)
              /\ SubSeq(s, st.pos, st.pos + Len(r.str) - 1) = r.str
           THEN <<[st EXCEPT !.pos = @ + Len(r.str)]>>
           ELSE <<>>
      [] r.kind = "one" ->
           IF st.pos <= Len(s) /\ InClass(At(s, st.pos), r.cls)
           THEN <<[st EXCEPT !.pos = @ + 1]>>
           ELSE <<>>
      [] r.kind = "plus" ->
           LET e == RunEnd(s, st.pos, r.cls)
           IN  [k \in 1..(e - st.pos) |-> [st EXCEPT !.pos = e - k + 1]]
      [] r.kind = "star" ->
           LET e == RunEnd(s, st.pos, r.cls)
           IN  [k \in 1..(e - st.pos + 1) |-> [st EXCEPT !.pos = e - k + 1]]
      [] r.kind = "opt" -> Match(r.of, s, st) \o <<st>>
      [] r.kind = "alt" ->
           Flatten([n \in 1..Len(r.items) |-> Match(r.items[n], s, st)])
      [] r.kind = "cat" -> MatchCat(r.items, s, <<st>>)
      [] r.kind = "group" ->
           LET ms == Match(r.of, s, st)
           IN  [n \in 1..Len(ms) |->
                   [ms[n] EXCEPT !.g[r.index] = SubSeq(s, st.pos, ms[n].pos - 1)]]

MatchCat(rs, s, sts) ==
    IF rs = <<>> THEN sts
    ELSE MatchCat(Tail(rs), s,
                  Flatten([n \in 1..Len(sts) |-> Match(Head(rs), s, sts[n])]))

NoMatch == [matched |-> FALSE]

\* re.search(r, s): the first match at the leftmost position that has one
RECURSIVE SearchFrom(_, _, _)
SearchFrom(r, s, start) ==
    IF start > Len(s) + 1 THEN NoMatch
    ELSE LET ms == Match(r, s, [pos |-> start, g |-> <<"", "">>])
         IN  IF ms # <<>> THEN [matched |-> TRUE, g |-> ms[1].g]
             ELSE SearchFrom(r, s, start + 1)

re_search(r, s) == SearchFrom(r, s, 1)

\* the six patterns, lines 76, 82, 93, 103, 114 and 122
LabelScanPattern ==
    Cat(<<Group(1, Alt(<<Lit("find"), Lit("show"), Lit("get"), Lit("list")>>)),
          Plus(Space),
          Opt(Cat(<<Lit("all"), Plus(Space)>>)),
          Opt(Cat(<<Lit("nodes"), Plus(Space)>>)),
          Opt(Alt(<<Cat(<<Lit("of"), Plus(Space), Lit("type"), Plus(Space)>>),
                    Cat(<<Lit("label"), Plus(Space)>>)>>)),
          Group(2, Plus(Word))>>)

PropertyPattern ==
    Cat(<<Alt(<<Lit("find"), Lit("show"), Lit("get")>>),
          Plus(Space),
          Opt(Cat(<<Lit("nodes"), Plus(Space)>>)),
          Opt(Cat(<<Lit("where"), Plus(Space)>>)),
          Group(1, Plus(Word)),
          Star(Space),
          Alt(<<Lit("="), Lit("is"), Lit(":")>>),
          Star(Space),
          Opt(One(Quote)),
          Group(2, Plus(NotQuote)),
          Opt(One(Quote))>>)

NeighborsPattern ==
    Cat(<<Alt(<<Lit("neighbors"), Lit("connected to"), Lit("connections of"),
                Lit("show related to")>>),
          Plus(Space),
          Opt(Cat(<<Lit("node"), Plus(Space)>>)),
          Opt(One(Quote)),
          Group(1, Plus(NotQuote)),
          Opt(One(Quote))>>)

PathPattern ==
    Cat(<<Alt(<<Lit("path"), Lit("relationship")>>),
          Opt(Lit("s")),
          Plus(Space),
          Lit("between"),
          Plus(Space),
          Opt(One(Quote)),
          Group(1, Plus(NotQuote)),
          Opt(One(Quote)),
          Plus(Space),
          Alt(<<Lit("and"), Lit("&")>>),
          Plus(Space),
          Opt(One(Quote)),
          Group(2, Plus(NotQuote)),
          Opt(One(Quote))>>)

CountPattern ==
    Cat(<<Alt(<<Lit("count"), Lit("how many")>>),
          Plus(Space),
          Opt(Cat(<<Lit("nodes"), Plus(Space)>>)),
          Group(1, Plus(Word))>>)

GenericPattern ==
    Cat(<<Group(1, Plus(Word)),
          Plus(Space),
          Alt(<<Lit("is"), Lit("="), Lit(":")>>),
          Star(Space),
          Group(2, Plus(ValueChar))>>)

\* str.replace("'", "\\'")
RECURSIVE _escape_cypher_string(_)
_escape_cypher_string(s) ==
    IF Len(s) = 0 THEN ""
    ELSE (IF At(s, 1) = "'" THEN "\\'" ELSE At(s, 1))
             \o _escape_cypher_string(SubSeq(s, 2, Len(s)))

\* str.isdigit()
isdigit(s) == Len(s) > 0 /\ \A p \in 1..Len(s) : At(s, p) \in Digits

\* the backquote cannot be written in a string here; the model writes it as "~"
Backquote == "~"

EmptyInputPlaceholder == "-- empty input: no cypher generated"
safe_hint ==
    "-- Couldn't map input automatically. Example queries:\n"
        \o "-- 1) find nodes of type Device\n"
        \o "-- 2) show neighbors of 'Pump-123'\n"
        \o "-- 3) path between 'Alice' and 'Bob'\n"
        \o "MATCH (n) RETURN n LIMIT 50"

LabelScan(label) == "MATCH (n:" \o Backquote \o label \o Backquote \o ") RETURN n LIMIT 200"

PropertyScan(prop, val) ==
    IF isdigit(val)
    THEN "MATCH (n) WHERE coalesce(n." \o prop \o ", '') = " \o val
             \o " OR toString(n." \o prop \o ") = '" \o val \o "' RETURN n LIMIT 200"
    ELSE "MATCH (n) WHERE toLower(coalesce(n." \o prop \o ", '')) = '" \o Lower(val)
             \o "' RETURN n LIMIT 200"

NeighborsQuery(name) ==
    "MATCH (n) WHERE toLower(coalesce(n.name,'')) = '" \o Lower(name)
        \o "' OR toLower(coalesce(n.id,'')) = '" \o Lower(name) \o "' "
        \o "MATCH (n)-[r]-(m) RETURN n, r, m LIMIT 300"

PathQuery(a, b) ==
    "MATCH (a), (b) WHERE (toLower(coalesce(a.name,'')) = '" \o Lower(a)
        \o "' OR toLower(coalesce(a.id,'')) = '" \o Lower(a) \o "') "
        \o "AND (toLower(coalesce(b.name,'')) = '" \o Lower(b)
        \o "' OR toLower(coalesce(b.id,'')) = '" \o Lower(b) \o "') "
        \o "MATCH p = shortestPath((a)-[*..6]-(b)) RETURN p LIMIT 1"

CountQuery(label) ==
    "MATCH (n:" \o Backquote \o label \o Backquote \o ") RETURN count(n) as count"

GenericScan(prop, val) ==
    IF isdigit(val)
    THEN "MATCH (n) WHERE n." \o prop \o " = " \o val \o " RETURN n LIMIT 200"
    ELSE "MATCH (n) WHERE toLower(coalesce(n." \o prop \o ", '')) = '" \o Lower(val)
             \o "' RETURN n LIMIT 200"

\* which rule answers: the first whose pattern is found in the text
FirstRule(t) ==
    IF re_search(LabelScanPattern, t).matched THEN 1
    ELSE IF re_search(PropertyPattern, t).matched THEN 2
    ELSE IF re_search(NeighborsPattern, t).matched THEN 3
    ELSE IF re_search(PathPattern, t).matched THEN 4
    ELSE IF re_search(CountPattern, t).matched THEN 5
    ELSE IF re_search(GenericPattern, t).matched THEN 6
    ELSE 0

\* "if not nl or not nl.strip()"
IsBlank_OnlyEmpty(input) == input = ""
IsBlank(input) == input = "" \/ Strip(input) = ""

text_to_cypher_simple(input) ==
    IF IsBlank(input) THEN EmptyInputPlaceholder
    ELSE LET t == Lower(Strip(input))
             rule == FirstRule(t)
         IN  CASE rule = 1 -> LabelScan(re_search(LabelScanPattern, t).g[2])
               [] rule = 2 ->
                    LET m == re_search(PropertyPattern, t)
                    IN  PropertyScan(m.g[1], _escape_cypher_string(m.g[2]))
               [] rule = 3 ->
                    NeighborsQuery(_escape_cypher_string(re_search(NeighborsPattern, t).g[1]))
               [] rule = 4 ->
                    LET m == re_search(PathPattern, t)
                    IN  PathQuery(_escape_cypher_string(m.g[1]), _escape_cypher_string(m.g[2]))
               [] rule = 5 -> CountQuery(re_search(CountPattern, t).g[1])
               [] rule = 6 ->
                    LET m == re_search(GenericPattern, t)
                    IN  GenericScan(m.g[1], _escape_cypher_string(m.g[2]))
               [] OTHER -> safe_hint

\* one call text_to_cypher_simple(nl)
TextToCypherSimple ==
    /\ query = None
    /\ query' = [kind |-> "str", value |-> text_to_cypher_simple(nl)]
    /\ UNCHANGED nl
    /\ UNCHANGED notCypher

\* the inputs given: up to MaxWords words separated by single spaces, and
\* requests of the shapes the six rules are written for
MaxWords == 3
Words ==
    {"find", "where", "name", "=", "42", "Pump", "DELETE", "count", "neighbors",
     "create\\"}

RECURSIVE JoinWords(_)
JoinWords(ws) ==
    IF ws = <<>> THEN ""
    ELSE IF Len(ws) = 1 THEN ws[1]
    ELSE ws[1] \o " " \o JoinWords(Tail(ws))

WordsGiven == \E n \in 0..MaxWords : \E ws \in [1..n -> Words] : nl = JoinWords(ws)

BlankOrUnmatchedGiven ==
    nl \in {"", " ", "   ", "hello", "?", "merge everything", "DROP database", " Set "}

FindWhereGiven ==
    \E opener \in {"find where", "show nodes where", "get where", " Find  WHERE"},
       prop \in {"name", "id"},
       op \in {" = ", "=", " is ", ": "},
       val \in {"42", "pump", "'Pump-123'", "drop"} :
        nl = opener \o " " \o prop \o op \o val

NeighborsGiven ==
    \E opener \in {"neighbors", "neighbors of", "connected to node", "connections of",
                   "show related to"},
       name \in {"pump", "'Pump-123'", "\"a b\"", "node", " '", "o'neil",
                 "x delete n //\\"} :
        nl = opener \o " " \o name

PathGiven ==
    \E opener \in {"path between", "relationships between", "Paths  between"},
       a \in {"alice", "'Alice'", "set x\\"},
       conj \in {" and ", " & "},
       b \in {"bob", "\"Bob\"", "remove"} :
        nl = opener \o " " \o a \o conj \o b

CountGiven ==
    \E opener \in {"count", "how many", "count nodes"},
       label \in {"devices", "Materials", "drop"} :
        nl = opener \o " " \o label

GenericGiven ==
    \E prop \in {"status", "n"},
       op \in {" is ", " = ", " : ", " :"},
       val \in {"active", "5", "it's", "delete"} :
        nl = prop \o op \o val

CypherInit ==
    /\ \/ WordsGiven
       \/ BlankOrUnmatchedGiven
       \/ FindWhereGiven
       \/ NeighborsGiven
       \/ PathGiven
       \/ CountGiven
       \/ GenericGiven
    /\ query = None
    /\ OrchInit /\ requests = {}
    /\ MergeIdle
    /\ ChunkIdle
    /\ ExtractIdle
    /\ PathIdle
    /\ UploadIdle

CypherNext == TextToCypherSimple

CypherSpec == CypherInit /\ [][CypherNext]_vars

\* the text of a query outside string literals and backquoted names, in lower
\* case; inside a string literal a backslash takes the next character with it.
\* ScanStep is the scanner's step on one character.
ScanStep(mode, c) ==
    CASE mode = "code" ->
           IF c \in {"'", "\"", Backquote} THEN [mode |-> c, text |-> " "]
           ELSE [mode |-> "code",
                 text |-> IF c \in DOMAIN UpperToLower THEN UpperToLower[c] ELSE c]
      [] mode = Backquote ->
           IF c = Backquote THEN [mode |-> "code", text |-> " "]
           ELSE [mode |-> mode, text |-> ""]
      [] mode \in {"'", "\""} ->
           IF c = mode THEN [mode |-> "code", text |-> " "]
           ELSE IF c = "\\" THEN [mode |-> mode \o "\\", text |-> ""]
           ELSE [mode |-> mode, text |-> ""]
      [] OTHER -> [mode |-> SubSeq(mode, 1, 1), text |-> ""]

\* ScanPart gives <<text kept, mode after>> for s[lo..hi] entered in mode
RECURSIVE ScanPart(_, _, _, _)
ScanPart(s, lo, hi, mode) ==
    IF lo > hi THEN <<"", mode>>
    ELSE IF lo = hi THEN LET step == ScanStep(mode, At(s, lo))
                         IN  <<step.text, step.mode>>
    ELSE LET mid == (lo + hi) \div 2
             left == ScanPart(s, lo, mid, mode)
             right == ScanPart(s, mid + 1, hi, left[2])
         IN  <<left[1] \o right[1], right[2]>>

Unquoted(s) == ScanPart(s, 1, Len(s), "code")[1]

MutatingVerbs == {"create", "delete", "set", "merge", "remove", "drop"}

\* C21: for every input the query returned by text_to_cypher_simple is
\* read-only: no mutating verb (CREATE, DELETE, SET, MERGE, REMOVE, DROP, in
\* any letter case) stands in it outside a string literal or a quoted name,
\* whatever words the input contains.
C21_QueryIsReadOnly ==
    query # None =>
        \A verb \in MutatingVerbs : ~Contains(Unquoted(query.value), verb)

\* the rules that find their pattern in the text
NoRuleMatches(t) ==
    \A r \in {LabelScanPattern, PropertyPattern, NeighborsPattern, PathPattern,
              CountPattern, GenericPattern} : ~re_search(r, t).matched

StartsWith(s, prefix) == Len(s) >= Len(prefix) /\ SubSeq(s, 1, Len(prefix)) = prefix
EndsWith(s, suffix) ==
    Len(s) >= Len(suffix) /\ SubSeq(s, Len(s) - Len(suffix) + 1, Len(s)) = suffix
OnlySpaces(s) == \A p \in 1..Len(s) : At(s, p) = " "

\* C22: text_to_cypher_simple is total: every input, the empty and the
\* whitespace-only string and inputs matching no rule included, gets a
\* non-empty string: a placeholder for empty input, a bounded default query
\* when nothing matches.
C22_AlwaysAQuery ==
    query # None =>
        /\ query.kind = "str"
        /\ Len(query.value) > 0
        /\ OnlySpaces(nl) => query.value = "-- empty input: no cypher generated"
        /\ (~OnlySpaces(nl) /\ NoRuleMatches(Lower(Strip(nl)))) =>
              EndsWith(query.value, "MATCH (n) RETURN n LIMIT 50")

\* a whitespace-only input got the placeholder
C22_Witness ==
    /\ query # None
    /\ nl = "   "
    /\ StartsWith(query.value, "--")

\* C24: an input of the form "find where <prop> = <value>" gets the
\* property-equality scan on <prop>, with a numeric literal when the value is
\* all digits and a string literal otherwise, not a label scan.
C24_FindWhereIsPropertyScan ==
    query # None =>
        \A prop \in {"name", "id"}, val \in {"42", "pump", "drop"} :
            nl = "find where " \o prop \o " = " \o val =>
                query.value = PropertyScan(prop, val)
\* ------------------------------------------------------------------------
\* main.py: upload_and_ingest_hybrid.  The handler adds the text to the
\* vector store, then awaits _generate_graph_and_insight, whose first await is
\* the gather of process_text_in_chunks; the extraction tasks then run as in
\* process_text_in_chunks above.  Whatever is raised inside the handler's try
\* is answered with HTTP 500.
\* ------------------------------------------------------------------------
\* get_text_from_upload raised (no filename, unsupported type, no text): the
\* handler's except clause answers 500 before anything was stored
UploadRejected ==
    /\ upload = "received"
    /\ upload' = "failed"
    /\ UNCHANGED <<before, orchVars, mergeVars, chunkVars, extractVars, pathVars, cypherVars>>

\* lines 194-200: the text was read, vector_db.add_document stores its chunks,
\* and process_text_in_chunks creates one extraction task per graph chunk (a
\* graph chunk is longer than a vector chunk, so there are no more of them)
UploadIndexed ==
    /\ upload = "received"
    /\ \E f \in Filenames, n \in 1..MaxUploadChunks :
          /\ add_document(f, n)
          /\ n_chunks' \in 1..Min(n, MaxChunks)
    /\ task' = [i \in 1..n_chunks' |-> "pending"]
    /\ results' = [i \in 1..n_chunks' |-> None]
    /\ llm_reply' = [i \in 1..n_chunks' |-> None]
    /\ finished' = <<>>
    /\ outcome' = "running"
    /\ upload' = "graph"
    /\ UNCHANGED <<requests, pc, tv, tg, tw, citations_list, raw_docs, response, web_tool,
                   vector_ctx, graph_ctx, web_ctx, synth_calls, result>>
    /\ UNCHANGED <<groq_api_key, before, mergeVars, chunkVars, pathVars, cypherVars>>

\* process_text_in_chunks raised: lines 207-209 answer 500
UploadFails ==
    /\ upload = "graph"
    /\ outcome = "raised"
    /\ upload' = "failed"
    /\ UNCHANGED <<before, orchVars, mergeVars, chunkVars, extractVars, pathVars, cypherVars>>

\* process_text_in_chunks returned: the insight, the cache, the legacy index
\* and save_graph_to_neo4j catch their own errors, and lines 203-206 answer
\* "Ingestion Complete"
UploadReturns ==
    /\ upload = "graph"
    /\ outcome = "returned"
    /\ upload' = "returned"
    /\ UNCHANGED <<before, orchVars, mergeVars, chunkVars, extractVars, pathVars, cypherVars>>

\* an upload request has come in; the store is empty or holds an earlier upload
UploadInit ==
    /\ documents \in {<<>>, NewChunks("b.pdf", 1)}
    /\ count = Len(documents)
    /\ NoInvocation
    /\ requests = {}
    /\ upload = "received"
    /\ before = documents
    /\ n_chunks = 0
    /\ task = <<>>
    /\ results = <<>>
    /\ finished = <<>>
    /\ outcome = "none"
    /\ llm_reply = <<>>
    /\ groq_api_key \in BOOLEAN
    /\ MergeIdle
    /\ ChunkIdle
    /\ PathIdle
    /\ CypherIdle

UploadNext ==
    \/ UploadRejected
    \/ UploadIndexed
    \/ \E i \in ChunkIndices : TaskRaisesNoKey(i)
    \/ \E i \in ChunkIndices : TaskAwaitLlm(i)
    \/ \E i \in ChunkIndices : TaskResume(i)
    \/ ProcessRaises
    \/ ProcessReturns
    \/ UploadFails
    \/ UploadReturns

UploadSpec == UploadInit /\ [][UploadNext]_vars

\* C30: a hybrid upload that fails leaves the shared vector index as it was
\* before the request, the document's chunks being in the index only if the
\* ingestion completed, and the index's chunk count always equals the number
\* of stored chunk records.
C30_FailedUploadLeavesIndexUntouched ==
    /\ upload = "failed" => documents = before
    /\ count = Len(documents)

====
